---- MODULE Spec2Model ----
(***************************************************************************)
(* State-machine model of the RAG subsystem of catbot:                     *)
(*   backend/services/rag/rag_pipeline.py      (RAGPipeline)               *)
(*   backend/services/rag/vector_store.py      (VectorStore)               *)
(*   backend/services/rag/embedding_service.py (EmbeddingService)          *)
(*   backend/services/rag/text_splitter.py     (TextSplitter)              *)
(*   backend/services/rag/document_processor.py(DocumentProcessor)         *)
(*                                                                         *)
(* Representation choices                                                  *)
(*  - A text is a sequence of one-character strings.                       *)
(*  - A vector is [dim, c]: dim is its length and c its first two          *)
(*    components, all further components being 0.  The empty list is       *)
(*    the vector of dim 0.                                                 *)
(*  - A similarity score s is held as the integer s * ScoreDen.            *)
(*  - uuid4() is a fresh identifier: the next natural number never drawn.   *)
(*  - A Python exception leaving a method is the field raised = TRUE of    *)
(*    the value the call leaves in ret.                                    *)
(***************************************************************************)
EXTENDS Integers, Sequences, FiniteSets, TLC

VARIABLES
    is_initialized,   \* RAGPipeline._is_initialized
    vs_initialized,   \* VectorStore._is_initialized
    is_loaded,        \* EmbeddingService._is_loaded
    model_name,       \* EmbeddingService.model_name
    collection,       \* the records of the Chroma collection
    coll_dim,         \* dimension the collection is bound to (0: none yet)
    next_id,          \* number of uuid4() identifiers drawn so far
    coll_exists,      \* the collection self.collection refers to exists in the database
    lastOp,           \* the operation that ran last
    ret,              \* what that operation returned (or that it raised)
    calls             \* per caller of the API: where its call stands, and its locals

vars == <<is_initialized, vs_initialized, is_loaded, model_name,
          collection, coll_dim, next_id, coll_exists, lastOp, ret, calls>>

-----------------------------------------------------------------------------
(* Bounds of the model *)

MaxIds == 3        \* identifiers uuid4() hands out in one behaviour
MaxBatch == 2      \* paths in one process_multiple_documents call
MaxTexts == 3      \* texts in one direct generate_embeddings call
MaxArgLen == 2     \* length of each list of a direct add_documents call
MaxResults == 3     \* chunks of a collection found on disk
LongLen == 100     \* characters of a long chunk
MaxPages == 2      \* pages of a PDF handed to the document processor
MaxTextLen == 4    \* characters of a text handed to the splitter on its own

(* Program constants *)

EMBEDDING_DIMENSION == 384
DEFAULT_BATCH_SIZE == 32
DEFAULT_CHUNK_SIZE == 1000
DEFAULT_OVERLAP == 200
DEFAULT_TOP_K == 5
DEFAULT_MAX_CONTEXT_LENGTH == 2000
MIN_USEFUL_SPACE == 100
ScoreDen == 2

DEFAULT_MODEL == "all-MiniLM-L6-v2"
OtherModel == "all-mpnet-base-v2"
None == "None"

-----------------------------------------------------------------------------
(* Small helpers *)

Min(S) == CHOOSE x \in S : \A y \in S : x <= y
Max2(a, b) == IF a >= b THEN a ELSE b
Min2(a, b) == IF a <= b THEN a ELSE b

RECURSIVE SumSeq(_)
SumSeq(s) == IF s = <<>> THEN 0 ELSE Head(s) + SumSeq(Tail(s))

Range(s) == {s[i] : i \in 1..Len(s)}

SeqsUpTo(S, n) == UNION {[1..k -> S] : k \in 0..n}

-----------------------------------------------------------------------------
(* Text: str.strip() and the blank test `not text or not text.strip()` *)

Space == " "

RECURSIVE LStrip(_)
LStrip(s) == IF s # <<>> /\ Head(s) = Space THEN LStrip(Tail(s)) ELSE s

RECURSIVE RStrip(_)
RStrip(s) ==
    IF s # <<>> /\ s[Len(s)] = Space
    THEN RStrip(SubSeq(s, 1, Len(s) - 1))
    ELSE s

Strip(s) == RStrip(LStrip(s))

IsBlank(s) == s = <<>> \/ Strip(s) = <<>>

-----------------------------------------------------------------------------
(* Vectors *)

Vec(n, a, b) == [dim |-> n, c |-> <<a, b>>]

EmptyVec == Vec(0, 0, 0)

ZeroVector == Vec(EMBEDDING_DIMENSION, 0, 0)

ZeroVectors(n) == [i \in 1..n |-> ZeroVector]

(* Output dimension of the sentence-transformers model of that name. *)
NativeDimension(name) == IF name = DEFAULT_MODEL THEN 384 ELSE 768

(* model.encode on one stripped, non-empty text with normalize_embeddings:
   a unit vector that depends on the text (here on its first character). *)
Encode(text) ==
    LET ch == Head(text)
        n  == NativeDimension(model_name)
    IN  CASE ch = "a" -> Vec(n, 1, 0)
          [] ch = "b" -> Vec(n, 0, 1)
          [] ch = "c" -> Vec(n, -1, 0)
          [] OTHER    -> Vec(n, 0, -1)

(* Chroma's default space ("l2"): the squared Euclidean distance. *)
Distance(u, v) ==
    (u.c[1] - v.c[1]) * (u.c[1] - v.c[1]) + (u.c[2] - v.c[2]) * (u.c[2] - v.c[2])

-----------------------------------------------------------------------------
(* The files on disk: the inputs of ingestion *)

Paths ==
    {"a.txt", "c.txt", "blank.txt", "empty.txt", "missing.txt", "old.doc", "scan.pdf"}

FileExists(p) == p # "missing.txt"

(* Path(file_path).suffix.lower() *)
Suffix(p) ==
    CASE p = "old.doc"  -> ".doc"
      [] p = "scan.pdf" -> ".pdf"
      [] OTHER          -> ".txt"

(* Path(file_path).name *)
BaseName(p) == p

(* The text of each file.  a.txt is two letters, a blank and 998 letters:
   one character more than the chunk size of the pipeline, so that the
   splitter cuts it at its blank into two chunks. *)
FileText(p) ==
    CASE p = "a.txt"     -> [i \in 1..(DEFAULT_CHUNK_SIZE + 1) |->
                                IF i <= 2 THEN "a" ELSE IF i = 3 THEN Space ELSE "b"]
      [] p = "c.txt"     -> <<"c">>
      [] p = "blank.txt" -> <<" ", " ">>
      [] OTHER           -> <<>>

(* What one file is, as far as the document processor can tell:
     exists    os.path.exists(path)
     readable  open(path) and read() succeed (a regular file the process
               may read; FALSE for a directory or a file without permission)
     opens     the format libraries that can open the file
     pages     per page of a PDF, what each engine's text extraction does:
               "text" (yields text), "empty" (yields only blanks), "raise"
     paragraphs  the paragraph texts of a DOCX *)
PyMuPDF == "PyMuPDF"
PyPDF2 == "PyPDF2"
PythonDocx == "python-docx"

PageOutcomes == {"text", "empty", "raise"}
(* A page at least one engine reads, or one both engines treat alike. *)
Pages ==
    {pg \in [mu : PageOutcomes, py : PageOutcomes] :
        pg.mu = "text" \/ pg.py = "text" \/ pg.mu = pg.py}

(* scan.pdf is an image-only PDF: each engine opens it and finds no text. *)

File(p) ==
    [path |-> p, name |-> BaseName(p), suffix |-> Suffix(p),
     exists |-> FileExists(p), readable |-> FileExists(p),
     opens |-> {PyMuPDF, PyPDF2, PythonDocx},
     text |-> FileText(p), pages |-> (IF p = "scan.pdf" THEN <<[mu |-> "empty", py |-> "empty"]>> ELSE <<>>), paragraphs |-> <<>>]

-----------------------------------------------------------------------------
(* DocumentProcessor *)

MimePdf == "application/pdf"
MimeDocx == "application/vnd.openxmlformats-officedocument.wordprocessingml.document"
MimeTxt == "text/plain"

SUPPORTED_FORMATS == {MimePdf, MimeDocx, MimeTxt}

(* Path(file_path).suffix.lower() looked up in extension_map *)
detect_file_type_by_extension(f) ==
    CASE f.suffix = ".pdf"  -> MimePdf
      [] f.suffix = ".docx" -> MimeDocx
      [] f.suffix = ".txt"  -> MimeTxt
      [] f.suffix = ".doc"  -> "application/msword"
      [] f.suffix = ".rtf"  -> "application/rtf"
      [] f.suffix = ".odt"  -> "application/vnd.oasis.opendocument.text"
      [] OTHER               -> "unknown"

extract_base_metadata(f) == [filename |-> f.name, file_extension |-> f.suffix]

(* The text one page or paragraph contributes, and '\n\n'.join *)
PageText == <<"x">>
PageSeparator == <<"\n", "\n">>

RECURSIVE JoinTexts(_, _)
JoinTexts(parts, sep) ==
    IF parts = <<>> THEN <<>>
    ELSE IF Len(parts) = 1 THEN parts[1]
    ELSE parts[1] \o sep \o JoinTexts(Tail(parts), sep)

ZeroPages == "PDF has 0 pages"

EngineRaise(error) == [raised |-> TRUE, error |-> error, text |-> <<>>, metadata |-> <<>>]

(* total_text and the test that follows the page loop: a PDF without text
   raises. *)
TextOrRaise(total_text, pages, engine) ==
    IF IsBlank(total_text) THEN EngineRaise("No readable text found in PDF")
    ELSE [raised |-> FALSE, error |-> None, text |-> total_text,
          metadata |-> [pages |-> pages, processing_engine |-> engine]]

(* The page loop, common to the two engines: a page whose text is blank is
   dropped by `if page_text.strip()` and the kept texts are joined with
   '\n\n'. *)
ExtractPages(outcomes, engine) ==
    TextOrRaise(JoinTexts([i \in 1..Len(SelectSeq(outcomes, LAMBDA o : o = "text")) |-> PageText], PageSeparator), Len(outcomes), engine)

(* _process_pdf_with_pymupdf: get_text() is called outside any try, so one
   raising page ends the engine with that exception. *)
process_pdf_with_pymupdf(f) ==
    IF PyMuPDF \notin f.opens THEN EngineRaise("fitz.open failed")
    ELSE IF Len(f.pages) = 0 THEN EngineRaise(ZeroPages)
    ELSE IF \E i \in 1..Len(f.pages) : f.pages[i].mu = "raise" THEN EngineRaise("get_text failed")
    ELSE ExtractPages([i \in 1..Len(f.pages) |-> f.pages[i].mu], PyMuPDF)

(* _process_pdf_with_pypdf2: extract_text() is called inside try/except: pass,
   so a raising page is skipped. *)
process_pdf_with_pypdf2(f) ==
    IF PyPDF2 \notin f.opens THEN EngineRaise("PdfReader failed")
    ELSE IF Len(f.pages) = 0 THEN EngineRaise(ZeroPages)
    ELSE ExtractPages([i \in 1..Len(f.pages) |-> f.pages[i].py], PyPDF2)

WithEngines(r, engines) == [raised |-> r.raised, error |-> r.error, text |-> r.text, metadata |-> r.metadata, engines |-> engines]

(* The control flow of _process_pdf over the outcomes of its steps, with the
   primary engine's exception propagated instead of caught: no fallback. *)
try_engines_no_fallback(readable, PYMUPDF_AVAILABLE, primary, secondary) ==
    IF ~readable THEN WithEngines(EngineRaise("Cannot read PDF file"), <<>>)
    ELSE IF PYMUPDF_AVAILABLE THEN WithEngines(primary, <<PyMuPDF>>)
    ELSE WithEngines(secondary, <<PyPDF2>>)

(* The control flow of _process_pdf over the outcomes of its steps: the
   readability test, then PyMuPDF when the import succeeded, then PyPDF2 when
   PyMuPDF was skipped or raised.  `engines` lists the engines that were run,
   in order. *)
try_engines(readable, PYMUPDF_AVAILABLE, primary, secondary) ==
    IF ~readable THEN WithEngines(EngineRaise("Cannot read PDF file"), <<>>)
    ELSE IF PYMUPDF_AVAILABLE /\ ~primary.raised THEN WithEngines(primary, <<PyMuPDF>>)
    ELSE WithEngines(IF secondary.raised THEN EngineRaise("Failed to extract text from PDF") ELSE secondary,
                     IF PYMUPDF_AVAILABLE THEN <<PyMuPDF, PyPDF2>> ELSE <<PyPDF2>>)

(* _process_pdf *)
process_pdf(f, PYMUPDF_AVAILABLE) ==
    try_engines(f.readable, PYMUPDF_AVAILABLE, process_pdf_with_pymupdf(f), process_pdf_with_pypdf2(f))

(* _process_docx: Document(file_path) raises on a file it cannot open; the
   non-blank paragraphs are joined with '\n\n'. *)
process_docx(f) ==
    IF ~f.readable \/ PythonDocx \notin f.opens
    THEN WithEngines(EngineRaise("Package not found"), <<>>)
    ELSE WithEngines([raised |-> FALSE, error |-> None,
                      text |-> JoinTexts(SelectSeq(f.paragraphs, LAMBDA s : ~IsBlank(s)), PageSeparator),
                      metadata |-> [paragraphs |-> Len(f.paragraphs)]], <<>>)

(* _process_txt: open() raises on a file that cannot be read. *)
process_txt(f) ==
    IF ~f.readable
    THEN WithEngines(EngineRaise("Cannot open file"), <<>>)
    ELSE WithEngines([raised |-> FALSE, error |-> None, text |-> f.text,
                      metadata |-> [characters |-> Len(f.text)]], <<>>)

(* metadata.update(base_metadata) *)
UpdateMetadata(metadata, base) ==
    [k \in DOMAIN metadata \cup DOMAIN base |-> IF k \in DOMAIN base THEN base[k] ELSE metadata[k]]

(* process_document after the processor method was called: its exception
   leaves process_document, its metadata is updated with the base metadata. *)
document_content(f, file_type, r) ==
    IF r.raised
    THEN [raised |-> TRUE, error |-> r.error, text |-> <<>>,
          metadata |-> <<>>, file_type |-> file_type, engines |-> r.engines]
    ELSE [raised |-> FALSE, error |-> None, text |-> r.text,
          metadata |-> UpdateMetadata(r.metadata, extract_base_metadata(f)),
          file_type |-> file_type, engines |-> r.engines]

(* process_document from the SUPPORTED_FORMATS test on *)
process_by_type(f, file_type, PYMUPDF_AVAILABLE) ==
    IF file_type \notin SUPPORTED_FORMATS
    THEN [raised |-> TRUE, error |-> "Unsupported file type", text |-> <<>>,
          metadata |-> <<>>, file_type |-> file_type, engines |-> <<>>]
    ELSE document_content(f, file_type,
             CASE file_type = MimePdf  -> process_pdf(f, PYMUPDF_AVAILABLE)
               [] file_type = MimeDocx -> process_docx(f)
               [] OTHER                -> process_txt(f))

(* DocumentProcessor.process_document on the file f: raised = TRUE stands for
   the exception (FileNotFoundError / ValueError / OSError) leaving the method. *)
process_file(f, PYMUPDF_AVAILABLE) ==
    IF ~f.exists
    THEN [raised |-> TRUE, error |-> "File not found", text |-> <<>>,
          metadata |-> <<>>, file_type |-> "unknown", engines |-> <<>>]
    ELSE process_by_type(f, detect_file_type_by_extension(f), PYMUPDF_AVAILABLE)

(* DocumentProcessor.process_document on a path of the pipeline's disk *)
DP_process_document(p) == process_file(File(p), TRUE)

-----------------------------------------------------------------------------
(* TextSplitter *)

(* re.split at the blanks as RecursiveCharacterTextSplitter does it with
   keep_separator: the piece before the first blank, then every blank with
   the piece that follows it; empty pieces are dropped. *)
SplitKeepSeparator(s) ==
    LET starts   == {i \in 1..Len(s) : i = 1 \/ s[i] = Space}
        start(k) == CHOOSE p \in starts : Cardinality({q \in starts : q < p}) = k - 1
        end(k)   == IF k = Cardinality(starts) THEN Len(s) ELSE start(k + 1) - 1
    IN  [k \in 1..Cardinality(starts) |-> SubSeq(s, start(k), end(k))]

(* "".join(pieces) *)
RECURSIVE Concat(_)
Concat(pieces) == IF pieces = <<>> THEN <<>> ELSE Head(pieces) \o Concat(Tail(pieces))

(* _join_docs: the pieces joined and stripped, nothing if that is empty *)
JoinDocs(current_doc, joined) == IF joined = <<>> THEN <<>> ELSE <<joined>>

(* The while loop of _merge_splits: pieces leave the front of current_doc
   until what stays is no longer than the overlap and leaves room for the
   next piece. *)
RECURSIVE DropFront(_, _, _, _)
DropFront(current_doc, len, chunk_size, chunk_overlap) ==
    IF current_doc # <<>> /\ (Len(Concat(current_doc)) > chunk_overlap
                               \/ Len(Concat(current_doc)) + len > chunk_size)
    THEN DropFront(Tail(current_doc), len, chunk_size, chunk_overlap)
    ELSE current_doc

(* _merge_splits with the separator "" *)
RECURSIVE MergeSplits(_, _, _, _, _)
MergeSplits(splits, i, current_doc, chunk_size, chunk_overlap) ==
    IF i > Len(splits) THEN JoinDocs(current_doc, Strip(Concat(current_doc)))
    ELSE LET d     == splits[i]
             full  == current_doc # <<>> /\ Len(Concat(current_doc)) + Len(d) > chunk_size
             kept  == IF full THEN DropFront(current_doc, Len(d), chunk_size, chunk_overlap)
                      ELSE current_doc
         IN  (IF full THEN JoinDocs(current_doc, Strip(Concat(current_doc))) ELSE <<>>)
             \o MergeSplits(splits, i + 1, Append(kept, d), chunk_size, chunk_overlap)

(* _split_text on a piece that is left with the separator "" only: the
   pieces are list(text). *)
SplitAtChars(text, chunk_size, chunk_overlap) ==
    MergeSplits([i \in 1..Len(text) |-> <<text[i]>>], 1, <<>>, chunk_size, chunk_overlap)

(* The loop of _split_text over the pieces cut at the blanks: pieces
   shorter than the chunk size are collected and merged, a longer piece is
   split again at the next separator, "". *)
RECURSIVE SplitPieces(_, _, _, _, _)
SplitPieces(splits, i, good_splits, chunk_size, chunk_overlap) ==
    IF i > Len(splits) THEN MergeSplits(good_splits, 1, <<>>, chunk_size, chunk_overlap)
    ELSE IF Len(splits[i]) < chunk_size
    THEN SplitPieces(splits, i + 1, Append(good_splits, splits[i]), chunk_size, chunk_overlap)
    ELSE MergeSplits(good_splits, 1, <<>>, chunk_size, chunk_overlap)
         \o SplitAtChars(splits[i], chunk_size, chunk_overlap)
         \o SplitPieces(splits, i + 1, <<>>, chunk_size, chunk_overlap)

(* RecursiveCharacterTextSplitter(chunk_size, chunk_overlap,
   separators = ENGLISH_SEPARATORS).split_text on a text of letters and
   blanks, for a chunk size above 1: the first separator found in the text
   is " ", and "" when the text has no blank. *)
RecursiveSplit(text, chunk_size, chunk_overlap) ==
    IF Space \in Range(text)
    THEN SplitPieces(SplitKeepSeparator(text), 1, <<>>, chunk_size, chunk_overlap)
    ELSE SplitAtChars(text, chunk_size, chunk_overlap)

(* str.find(sub, start): the least 0-based index >= start, or -1 *)
Find(text, sub, start) ==
    LET hits == {i \in start..(Len(text) - Len(sub)) :
                    SubSeq(text, i + 1, i + Len(sub)) = sub}
    IN  IF hits = {} THEN -1 ELSE Min(hits)

RECURSIVE CreateChunksFrom(_, _, _, _, _)
CreateChunksFrom(chunks, i, original_text, metadata, current_position) ==
    IF i > Len(chunks) THEN <<>>
    ELSE LET chunk_content == chunks[i]
             found     == Find(original_text, chunk_content, current_position)
             start_pos == IF found = -1 THEN current_position ELSE found
             end_pos   == start_pos + Len(chunk_content)
             text_chunk ==
                 [content     |-> Strip(chunk_content),
                  metadata    |-> [filename          |-> metadata.filename,
                                   file_extension    |-> metadata.file_extension,
                                   chunk_size        |-> Len(chunk_content),
                                   original_document |-> metadata.filename],
                  chunk_index |-> i - 1,
                  start_char  |-> start_pos,
                  end_char    |-> end_pos]
         IN  <<text_chunk>> \o
             CreateChunksFrom(chunks, i + 1, original_text, metadata,
                              start_pos + Len(chunk_content))

create_text_chunks(chunks, original_text, metadata) ==
    CreateChunksFrom(chunks, 1, original_text, metadata, 0)

(* TextSplitter.split_text(text, metadata) of a splitter whose
   self.chunk_size and self.chunk_overlap are chunk_size and chunk_overlap *)
split_text(text, metadata, chunk_size, chunk_overlap) ==
    IF IsBlank(text) THEN <<>>
    ELSE create_text_chunks(RecursiveSplit(text, chunk_size, chunk_overlap), text, metadata)

-----------------------------------------------------------------------------
(* EmbeddingService *)

(* [text.strip() for text in texts if text and text.strip()] *)
NonEmptyTexts(texts) ==
    LET keep == SelectSeq(texts, LAMBDA t : ~IsBlank(t))
    IN  [i \in 1..Len(keep) |-> Strip(keep[i])]

(* The batch loop from offset i.  fail_batch is the number of the batch
   whose model.encode call raises (0: none does). *)
RECURSIVE EncodeBatches(_, _, _, _)
EncodeBatches(non_empty_texts, i, batch_size, fail_batch) ==
    IF i >= Len(non_empty_texts)
    THEN [raised |-> FALSE, value |-> <<>>]
    ELSE LET batch == SubSeq(non_empty_texts, i + 1,
                             Min2(i + batch_size, Len(non_empty_texts)))
             b     == (i \div batch_size) + 1
         IN  IF b = fail_batch
             THEN [raised |-> TRUE, value |-> <<>>]
             ELSE LET rest == EncodeBatches(non_empty_texts, i + batch_size,
                                            batch_size, fail_batch)
                  IN  IF rest.raised THEN rest
                      ELSE [raised |-> FALSE,
                            value  |-> [k \in 1..Len(batch) |-> Encode(batch[k])]
                                       \o rest.value]

(* Variant of generate_embeddings that keeps the vectors of the batches
   encoded before the failing one and fills up with zero vectors. *)
generate_embeddings_keep(loaded, texts, batch_size, load_ok, fail_batch) ==
    IF texts = <<>>
    THEN [raised |-> FALSE, value |-> <<>>, loaded |-> loaded,
          load_attempted |-> FALSE]
    ELSE IF ~loaded /\ ~load_ok
    THEN [raised |-> TRUE, value |-> <<>>, loaded |-> FALSE,
          load_attempted |-> TRUE]
    ELSE LET non_empty_texts == NonEmptyTexts(texts)
             done == IF fail_batch >= 1
                     THEN Min2((fail_batch - 1) * batch_size, Len(non_empty_texts))
                     ELSE Len(non_empty_texts)
         IN  [raised |-> FALSE,
              value  |-> [k \in 1..done |-> Encode(non_empty_texts[k])]
                         \o ZeroVectors(Len(texts) - done),
              loaded |-> TRUE, load_attempted |-> ~loaded]

(* EmbeddingService.generate_embeddings.  loaded is _is_loaded before the
   call and load_ok says whether load_model, if it runs, succeeds. *)
generate_embeddings(loaded, texts, batch_size, load_ok, fail_batch) ==
    IF texts = <<>>
    THEN [raised |-> FALSE, value |-> <<>>, loaded |-> loaded,
          load_attempted |-> FALSE]
    ELSE IF ~loaded /\ ~load_ok
    THEN [raised |-> TRUE, value |-> <<>>, loaded |-> FALSE,
          load_attempted |-> TRUE]
    ELSE LET non_empty_texts == NonEmptyTexts(texts) IN
         IF non_empty_texts = <<>>
         THEN [raised |-> FALSE, value |-> ZeroVectors(Len(texts)), loaded |-> TRUE,
               load_attempted |-> ~loaded]
         ELSE LET r == EncodeBatches(non_empty_texts, 0, batch_size, fail_batch) IN
              IF r.raised
              THEN [raised |-> FALSE, value |-> ZeroVectors(Len(texts)),
                    loaded |-> TRUE, load_attempted |-> ~loaded]
              ELSE [raised |-> FALSE, value |-> r.value, loaded |-> TRUE,
                    load_attempted |-> ~loaded]

(* EmbeddingService.generate_embedding *)
generate_embedding(loaded, text, load_ok, fail_batch) ==
    IF IsBlank(text)
    THEN [raised |-> FALSE, value |-> ZeroVector, loaded |-> loaded,
          load_attempted |-> FALSE]
    ELSE LET r == generate_embeddings(loaded, <<text>>, DEFAULT_BATCH_SIZE,
                                      load_ok, fail_batch)
         IN  IF r.raised THEN r
             ELSE [raised |-> FALSE, value |-> r.value[1], loaded |-> r.loaded,
                   load_attempted |-> r.load_attempted]

-----------------------------------------------------------------------------
(* VectorStore.  st = [coll, dim, next_id, exists] is the part of the state
   an insert or a reset changes. *)

Store == [coll |-> collection, dim |-> coll_dim, next_id |-> next_id, exists |-> coll_exists]

IdsOf(coll) == {r.id : r \in coll}

(* _process_metadatas: str and int values pass through unchanged; all the
   metadata values of this model are of these two types. *)
process_metadatas(metadatas) == metadatas

(* Variant of ChromaAdd that has written the records when the insert fails. *)
ChromaAddPartial(st, texts, embeddings, metadatas, ids, add_fails) ==
    [raised |-> add_fails,
     st |-> [st EXCEPT
               !.coll = st.coll \cup
                        {[id        |-> ids[i],
                          document  |-> texts[i],
                          embedding |-> embeddings[i],
                          metadata  |-> metadatas[i]] : i \in 1..Len(texts)},
               !.dim = embeddings[1].dim]]

(* collection.add of chromadb: raises on a collection that was deleted, on
   an id repeated in the call, on embeddings of differing or zero length,
   and on a length other than the one the collection is bound to; a record
   whose id exists is left out. *)
ChromaAdd(st, texts, embeddings, metadatas, ids, add_fails) ==
    LET n    == Len(texts)
        dims == {embeddings[i].dim : i \in 1..n}
        bad  == \/ add_fails
                \/ ~st.exists
                \/ Len(ids) # n
                \/ Cardinality(Range(ids)) # Len(ids)
                \/ Cardinality(dims) # 1
                \/ 0 \in dims
                \/ (st.dim # 0 /\ dims # {st.dim})
        new  == {[id        |-> ids[i],
                  document  |-> texts[i],
                  embedding |-> embeddings[i],
                  metadata  |-> metadatas[i]] : i \in {j \in 1..n : ids[j] \notin IdsOf(st.coll)}}
    IN  IF bad
        THEN [raised |-> TRUE, st |-> st]
        ELSE [raised |-> FALSE,
              st |-> [st EXCEPT !.coll = st.coll \cup new,
                                !.dim  = CHOOSE d \in dims : TRUE]]

(* Variant of GenerateIds that numbers the ids of every call from 1. *)
GenerateIdsRestart(st, n) == [i \in 1..n |-> i]

(* [str(uuid.uuid4()) for _ in texts] *)
GenerateIds(st, n) == [i \in 1..n |-> st.next_id + i]

(* Variant of get_collection_stats that counts only the filenames that
   are present. *)
get_collection_stats_named(coll, stats_fail) ==
    IF stats_fail \/ ~coll_exists
    THEN [document_count |-> 0, total_chunks |-> 0]
    ELSE [document_count |-> Cardinality({r.metadata.filename : r \in {x \in coll : "filename" \in DOMAIN x.metadata}}),
          total_chunks   |-> Cardinality(coll)]

(* VectorStore.get_collection_stats after _ensure_initialized; an
   exception of collection.count() or collection.get() gives zeros, and
   count() raises on a collection that was deleted. *)
get_collection_stats(coll, stats_fail) ==
    IF stats_fail \/ ~coll_exists
    THEN [document_count |-> 0, total_chunks |-> 0]
    ELSE LET total_chunks == Cardinality(coll)
             unique_filenames ==
                 {IF "filename" \in DOMAIN r.metadata THEN r.metadata.filename
                  ELSE "unknown" : r \in coll}
         IN  [document_count |-> IF total_chunks > 0
                                 THEN Cardinality(unique_filenames) ELSE 0,
              total_chunks   |-> total_chunks]

(* VectorStore.add_documents after _ensure_initialized.  document_ids is
   [given, ids]: given = FALSE is the default None. *)
add_documents(st, texts, embeddings, metadatas, document_ids, add_fails) ==
    IF texts = <<>> \/ embeddings = <<>> \/ metadatas = <<>>
    THEN [raised |-> FALSE, error |-> None, value |-> <<>>, st |-> st]
    ELSE IF Len(texts) # Len(embeddings) \/ Len(texts) # Len(metadatas)
    THEN [raised |-> TRUE,
          error  |-> "Texts, embeddings, and metadatas must have same length",
          value  |-> <<>>, st |-> st]
    ELSE LET ids == IF document_ids.given THEN document_ids.ids
                    ELSE GenerateIds(st, Len(texts))
             st1 == IF document_ids.given THEN st
                    ELSE [st EXCEPT !.next_id = st.next_id + Len(texts)]
             r   == ChromaAdd(st1, texts, embeddings,
                              process_metadatas(metadatas), ids, add_fails)
         IN  IF r.raised
             THEN [raised |-> TRUE,
                   error  |-> "Could not add documents to vector store",
                   value  |-> <<>>, st |-> r.st]
             ELSE [raised |-> FALSE, error |-> None, value |-> ids, st |-> r.st]

(* _build_where_clause returns the filter as it is; the only filters used
   are {} / None and {'filename': f}. *)
build_where_clause(metadata_filter) == metadata_filter

NoFilter == <<>>

Matches(rec, where) ==
    \/ DOMAIN where = {}
    \/ /\ "filename" \in DOMAIN rec.metadata
       /\ rec.metadata.filename = where.filename

(* The orders in which collection.query may return the k nearest of M:
   ascending distance, records at equal distance in any order. *)
RECURSIVE Ranked(_, _, _)
Ranked(M, q, k) ==
    IF k = 0 \/ M = {} THEN {<<>>}
    ELSE LET best == {r \in M : \A x \in M :
                         Distance(q, r.embedding) <= Distance(q, x.embedding)}
         IN  UNION {{<<r>> \o t : t \in Ranked(M \ {r}, q, k - 1)} : r \in best}

(* collection.query: the possible results, or raised (as it does on a
   collection that was deleted). *)
ChromaQuery(coll, dim, q, n_results, where, query_fails) ==
    IF query_fails \/ ~coll_exists \/ n_results <= 0 \/ (dim # 0 /\ q.dim # dim)
    THEN {[raised |-> TRUE, recs |-> <<>>]}
    ELSE LET M == {r \in coll : Matches(r, where)}
         IN  {[raised |-> FALSE, recs |-> s] : s \in Ranked(M, q, Min2(n_results, Cardinality(M)))}

(* Variant of SimilarityScore without the lower clamp. *)
SimilarityScoreNoClamp(distance) == ScoreDen - (distance * ScoreDen) \div 2

(* max(0.0, 1.0 - (distance / 2.0)), in units of 1/ScoreDen *)
SimilarityScore(distance) == Max2(0, ScoreDen - (distance * ScoreDen) \div 2)

(* _parse_search_results: distances[i] is the distance Chroma reports
   for result i. *)
parse_search_results(recs, distances) ==
    [i \in 1..Len(recs) |->
        [content          |-> recs[i].document,
         metadata         |-> recs[i].metadata,
         similarity_score |-> SimilarityScore(distances[i]),
         document_id      |-> recs[i].id]]

(* VectorStore.search_similar after _ensure_initialized: the possible
   return values, each with the distances Chroma reported. *)
search_similar(coll, dim, query_embedding, n_results, metadata_filter, query_fails) ==
    IF query_embedding.dim = 0
    THEN {[value |-> <<>>, distances |-> <<>>]}
    ELSE LET where == IF DOMAIN metadata_filter # {}
                      THEN build_where_clause(metadata_filter) ELSE NoFilter
         IN  {IF r.raised
              THEN [value |-> <<>>, distances |-> <<>>]
              ELSE LET ds == [i \in 1..Len(r.recs) |->
                                 Distance(query_embedding, r.recs[i].embedding)]
                   IN  [value |-> parse_search_results(r.recs, ds), distances |-> ds]
              : r \in ChromaQuery(coll, dim, query_embedding, n_results, where, query_fails)}

(* Variant of delete_by_metadata whose where clause matches every record. *)
delete_by_metadata_all(coll, metadata_filter, delete_fails) ==
    IF delete_fails \/ ~coll_exists
    THEN [value |-> FALSE, coll |-> coll, raised |-> TRUE]
    ELSE [value |-> TRUE, coll |-> {}, raised |-> FALSE]

(* VectorStore.delete_by_metadata on an initialized store: the Boolean
   returned and the records left.  delete_fails: collection.delete raises,
   as it does on a collection that was deleted; raised records that it did. *)
delete_by_metadata(coll, metadata_filter, delete_fails) ==
    IF delete_fails \/ ~coll_exists
    THEN [value |-> FALSE, coll |-> coll, raised |-> TRUE]
    ELSE LET where_clause == build_where_clause(metadata_filter)
         IN  [value |-> TRUE, coll |-> {r \in coll : ~Matches(r, where_clause)}, raised |-> FALSE]

(* The step of reset_collection that raises, if one does *)
ResetFaults == {"none", "delete_collection", "create_collection"}

(* Variant of reset_collection that recreates nothing: the records stay. *)
reset_collection_keep(st, reset_fails) ==
    IF reset_fails = "delete_collection" \/ ~st.exists
    THEN [value |-> FALSE, st |-> st]
    ELSE IF reset_fails = "create_collection"
    THEN [value |-> FALSE, st |-> [st EXCEPT !.coll = {}, !.dim = 0, !.exists = FALSE]]
    ELSE [value |-> TRUE, st |-> st]

(* VectorStore.reset_collection on an initialized store.  reset_fails names
   the call that raises.  client.delete_collection also raises when the
   collection is not there; when client.create_collection raises, the
   collection has been deleted and self.collection still refers to it. *)
reset_collection(st, reset_fails) ==
    IF reset_fails = "delete_collection" \/ ~st.exists
    THEN [value |-> FALSE, st |-> st]
    ELSE IF reset_fails = "create_collection"
    THEN [value |-> FALSE, st |-> [st EXCEPT !.coll = {}, !.dim = 0, !.exists = FALSE]]
    ELSE [value |-> TRUE, st |-> [st EXCEPT !.coll = {}, !.dim = 0]]

(* EmbeddingService.get_model_info *)
get_model_info(loaded) ==
    [model_name          |-> model_name,
     embedding_dimension |-> EMBEDDING_DIMENSION,
     is_loaded           |-> loaded]

-----------------------------------------------------------------------------
(* RAGPipeline *)

(* VectorStore.initialize: store_ok says whether opening the Chroma client
   and collection succeeds when it is attempted;
   opened records whether the client and collection were opened (the
   guard on _is_initialized was passed). *)
vs_initialize(store_ok) ==
    IF vs_initialized THEN [raised |-> FALSE, vs |-> TRUE, opened |-> FALSE]
    ELSE IF store_ok THEN [raised |-> FALSE, vs |-> TRUE, opened |-> TRUE]
    ELSE [raised |-> TRUE, vs |-> FALSE, opened |-> TRUE]

(* Variant of load_model that loads the model whether or not one is
   loaded. *)
load_model_always(load_ok) ==
    IF load_ok THEN [raised |-> FALSE, loaded |-> TRUE, attempted |-> TRUE]
    ELSE [raised |-> TRUE, loaded |-> FALSE, attempted |-> TRUE]

(* EmbeddingService.load_model: attempted records whether
   SentenceTransformer(...) was called (the guard on _is_loaded was
   passed). *)
load_model(load_ok) ==
    IF is_loaded THEN [raised |-> FALSE, loaded |-> TRUE, attempted |-> FALSE]
    ELSE IF load_ok THEN [raised |-> FALSE, loaded |-> TRUE, attempted |-> TRUE]
    ELSE [raised |-> TRUE, loaded |-> FALSE, attempted |-> TRUE]

(* RAGPipeline.initialize: value is the Boolean it returns; store_opened and
   load_attempted record what the two calls did. *)
initialize(store_ok, load_ok) ==
    LET v == vs_initialize(store_ok) IN
    IF v.raised
    THEN [value |-> FALSE, init |-> is_initialized, vs |-> v.vs, loaded |-> is_loaded,
          store_opened |-> v.opened, load_attempted |-> FALSE]
    ELSE LET m == load_model(load_ok) IN
         IF m.raised
         THEN [value |-> FALSE, init |-> is_initialized, vs |-> v.vs,
               loaded |-> m.loaded,
               store_opened |-> v.opened, load_attempted |-> m.attempted]
         ELSE [value |-> TRUE, init |-> TRUE, vs |-> v.vs, loaded |-> m.loaded,
               store_opened |-> v.opened, load_attempted |-> m.attempted]

(* Variant of ensure_initialized that lets the caller go on when the
   initialization failed. *)
ensure_initialized_lenient(store_ok, load_ok) ==
    IF ~is_initialized
    THEN LET i == initialize(store_ok, load_ok)
         IN  [raised |-> FALSE, init |-> i.init, vs |-> i.vs, loaded |-> i.loaded]
    ELSE [raised |-> FALSE, init |-> TRUE, vs |-> vs_initialized, loaded |-> is_loaded]

(* RAGPipeline._ensure_initialized *)
ensure_initialized(store_ok, load_ok) ==
    IF ~is_initialized
    THEN LET i == initialize(store_ok, load_ok)
         IN  [raised |-> ~i.value, init |-> i.init, vs |-> i.vs, loaded |-> i.loaded]
    ELSE [raised |-> FALSE, init |-> TRUE, vs |-> vs_initialized, loaded |-> is_loaded]

NotInitialized == [raised |-> TRUE, error |-> "RAG pipeline not initialized"]

(* The outcome dictionaries of process_document *)
NoChunksOutcome ==
    [success |-> FALSE, error |-> "No chunks generated from document",
     document_id |-> None, chunks_added |-> 0]

ExceptOutcome(e) ==
    [success |-> FALSE, error |-> e, document_id |-> None, chunks_added |-> 0,
     total_characters |-> 0, file_type |-> "unknown"]

(* Variant of ChunkMetadata that numbers the chunks from 1. *)
ChunkMetadataFromOne(chunk) ==
    [filename          |-> chunk.metadata.filename,
     file_extension    |-> chunk.metadata.file_extension,
     chunk_size        |-> chunk.metadata.chunk_size,
     original_document |-> chunk.metadata.original_document,
     chunk_index       |-> chunk.chunk_index + 1,
     start_char        |-> chunk.start_char,
     end_char          |-> chunk.end_char,
     embedding_model   |-> model_name]

(* chunk.metadata.copy() updated with the four pipeline keys *)
ChunkMetadata(chunk) ==
    [filename          |-> chunk.metadata.filename,
     file_extension    |-> chunk.metadata.file_extension,
     chunk_size        |-> chunk.metadata.chunk_size,
     original_document |-> chunk.metadata.original_document,
     chunk_index       |-> chunk.chunk_index,
     start_char        |-> chunk.start_char,
     end_char          |-> chunk.end_char,
     embedding_model   |-> model_name]

(* self.document_processor.process_document(file_path), tabulated over the
   files on disk. *)
DocumentContentOf == [p \in Paths |-> DP_process_document(p)]

(* self.text_splitter.split_text(doc_content.text, doc_content.metadata)
   of the pipeline api.py builds, RAGPipeline() with chunk_size 1000 and
   chunk_overlap 200, tabulated over the files on disk (<<>> where the
   extraction raised). *)
ChunksOf ==
    [p \in Paths |->
        IF DocumentContentOf[p].raised THEN <<>>
        ELSE split_text(DocumentContentOf[p].text, DocumentContentOf[p].metadata,
                        DEFAULT_CHUNK_SIZE, DEFAULT_OVERLAP)]

(* Variant of NoChunks for a pipeline that does not check for an empty
   chunk list. *)
NoChunksUnchecked(chunks) == FALSE

(* if not chunks *)
NoChunks(chunks) == chunks = <<>>

(* The try block of RAGPipeline.process_document with its handler.
   env = [fail_batch, add_fails] are the failures of the collaborators.
   embedded and inserted record whether generate_embeddings and
   add_documents were called. *)
process_document_try(st, loaded, file_path, load_ok, env) ==
    LET doc_content == DocumentContentOf[file_path] IN
    IF doc_content.raised
    THEN [out |-> ExceptOutcome(doc_content.error), st |-> st, loaded |-> loaded,
          embedded |-> FALSE, inserted |-> FALSE]
    ELSE
    LET chunks == ChunksOf[file_path] IN
    IF NoChunks(chunks)
    THEN [out |-> NoChunksOutcome, st |-> st, loaded |-> loaded,
          embedded |-> FALSE, inserted |-> FALSE]
    ELSE
    LET chunk_texts == [i \in 1..Len(chunks) |-> chunks[i].content]
        e == generate_embeddings(loaded, chunk_texts, DEFAULT_BATCH_SIZE,
                                 load_ok, env.fail_batch)
    IN
    IF e.raised
    THEN [out |-> ExceptOutcome("Could not load embedding model"),
          st |-> st, loaded |-> e.loaded, embedded |-> TRUE, inserted |-> FALSE]
    ELSE
    LET chunk_metadatas == [i \in 1..Len(chunks) |-> ChunkMetadata(chunks[i])]
        a == add_documents(st, chunk_texts, e.value, chunk_metadatas,
                           [given |-> FALSE, ids |-> <<>>], env.add_fails)
    IN
    IF a.raised
    THEN [out |-> ExceptOutcome(a.error), st |-> a.st, loaded |-> e.loaded,
          embedded |-> TRUE, inserted |-> TRUE]
    ELSE [out |-> [success             |-> TRUE,
                   document_id         |-> doc_content.metadata.filename,
                   chunks_added        |-> Len(chunks),
                   total_characters    |-> Len(doc_content.text),
                   file_type           |-> doc_content.file_type,
                   embedding_dimension |-> EMBEDDING_DIMENSION],
          st |-> a.st, loaded |-> e.loaded, embedded |-> TRUE, inserted |-> TRUE]

(* One pass of the loop body of process_multiple_documents: the results
   dictionary after process_document(file_path) returned result.  The key
   outcomes (not in the code) keeps what each call returned. *)
BatchAccumulate(results, file_path, result) ==
    IF result.success
    THEN [results EXCEPT
            !.successful = @ + 1,
            !.total_chunks = @ + result.chunks_added,
            !.processed_files =
                Append(@, [file      |-> file_path,
                           chunks    |-> result.chunks_added,
                           file_type |-> result.file_type]),
            !.outcomes = Append(@, result)]
    ELSE [results EXCEPT
            !.failed = @ + 1,
            !.errors = Append(@, [file |-> file_path, error |-> result.error]),
            !.outcomes = Append(@, result)]

(* Variant of BatchLoop that leaves the loop at the first failed document. *)
RECURSIVE BatchLoopBreak(_, _, _, _, _, _, _)
BatchLoopBreak(st, loaded, file_paths, load_ok, envs, i, results) ==
    IF i > Len(file_paths)
    THEN [results |-> results, st |-> st, loaded |-> loaded]
    ELSE LET r == process_document_try(st, loaded, file_paths[i], load_ok, envs[i])
         IN  IF r.out.success
             THEN BatchLoopBreak(r.st, r.loaded, file_paths, load_ok, envs, i + 1,
                                 BatchAccumulate(results, file_paths[i], r.out))
             ELSE [results |-> BatchAccumulate(results, file_paths[i], r.out),
                   st |-> r.st, loaded |-> r.loaded]

(* The loop of process_multiple_documents from path i on.  The pipeline is
   initialized here, so process_document's own _ensure_initialized does
   nothing. *)
RECURSIVE BatchLoop(_, _, _, _, _, _, _)
BatchLoop(st, loaded, file_paths, load_ok, envs, i, results) ==
    IF i > Len(file_paths)
    THEN [results |-> results, st |-> st, loaded |-> loaded]
    ELSE LET r == process_document_try(st, loaded, file_paths[i], load_ok, envs[i])
         IN  BatchLoop(r.st, r.loaded, file_paths, load_ok, envs, i + 1,
                       BatchAccumulate(results, file_paths[i], r.out))

process_multiple_documents_body(st, loaded, file_paths, load_ok, envs) ==
    BatchLoop(st, loaded, file_paths, load_ok, envs, 1,
              [total_documents |-> Len(file_paths),
               successful      |-> 0,
               failed          |-> 0,
               total_chunks    |-> 0,
               errors          |-> <<>>,
               processed_files |-> <<>>,
               outcomes        |-> <<>>])

(* Variant of FilterByThreshold that keeps only the scores above the
   threshold. *)
FilterAboveThreshold(results, similarity_threshold) ==
    SelectSeq(results, LAMBDA r : r.similarity_score > similarity_threshold)

(* [result for result in results if result.similarity_score >= threshold] *)
FilterByThreshold(results, similarity_threshold) ==
    SelectSeq(results, LAMBDA r : r.similarity_score >= similarity_threshold)

(* RAGPipeline.query_documents after _ensure_initialized: the possible
   returns.  value is the list returned; any exception in the try block
   gives [].  results is what search_similar returned, embedded and searched
   record whether generate_embedding and search_similar were called. *)
query_documents_body(loaded, query, top_k, metadata_filter, similarity_threshold, load_ok, env) ==
    IF IsBlank(query)
    THEN {[value |-> <<>>, results |-> <<>>, embedded |-> FALSE, searched |-> FALSE]}
    ELSE LET e == generate_embedding(loaded, query, load_ok, env.fail_batch) IN
         IF e.raised
         THEN {[value |-> <<>>, results |-> <<>>, embedded |-> TRUE, searched |-> FALSE]}
         ELSE {[value    |-> FilterByThreshold(s.value, similarity_threshold),
                results  |-> s.value,
                embedded |-> TRUE,
                searched |-> TRUE] :
                  s \in search_similar(collection, coll_dim, e.value, top_k,
                                       metadata_filter, env.query_fails)}

(* The characters of a file name, and of the default 'Unknown source'. *)
CharsOf(name) ==
    CASE name = "a.txt" -> <<"a", ".", "t", "x", "t">>
      [] name = "c.txt" -> <<"c", ".", "t", "x", "t">>
      [] name = "blank.txt" -> <<"b", "l", "a", "n", "k", ".", "t", "x", "t">>
      [] OTHER -> <<"U", "n", "k", "n", "o", "w", "n", " ",
                    "s", "o", "u", "r", "c", "e">>

(* result.metadata.get('filename', 'Unknown source') *)
SourceOf(metadata) ==
    IF "filename" \in DOMAIN metadata THEN metadata.filename ELSE "Unknown source"

(* f"[Source: {source}]\n{content}\n" with content = result.content.strip() *)
FormatEntry(result) ==
    <<"[", "S", "o", "u", "r", "c", "e", ":", " ">> \o CharsOf(SourceOf(result.metadata))
        \o <<"]", "\n">> \o Strip(result.content) \o <<"\n">>

(* s[:n] of Python, for any integer n *)
SliceTo(s, n) ==
    IF n >= 0 THEN SubSeq(s, 1, Min2(n, Len(s)))
    ELSE SubSeq(s, 1, Max2(0, Len(s) + n))

Ellipsis == <<".", ".", ".">>

ContextSeparator == <<"\n", "-", "-", "-", "\n">>

(* sep.join(parts) *)
RECURSIVE Join(_, _)
Join(parts, sep) ==
    IF parts = <<>> THEN <<>>
    ELSE IF Len(parts) = 1 THEN parts[1]
    ELSE parts[1] \o sep \o Join(Tail(parts), sep)

(* Variant of PackContext that skips an entry that does not fit and goes on
   with the next one. *)
RECURSIVE PackContextSkip(_, _, _, _, _)
PackContextSkip(search_results, i, max_context_length, context_parts, current_length) ==
    IF i > Len(search_results) THEN context_parts
    ELSE LET formatted_content == FormatEntry(search_results[i]) IN
         IF current_length + Len(formatted_content) > max_context_length
         THEN PackContextSkip(search_results, i + 1, max_context_length,
                              context_parts, current_length)
         ELSE PackContextSkip(search_results, i + 1, max_context_length,
                              Append(context_parts, formatted_content),
                              current_length + Len(formatted_content))

(* The loop of generate_context from result i on: the list context_parts
   when the loop ends. *)
RECURSIVE PackContext(_, _, _, _, _)
PackContext(search_results, i, max_context_length, context_parts, current_length) ==
    IF i > Len(search_results) THEN context_parts
    ELSE LET formatted_content == FormatEntry(search_results[i]) IN
         IF current_length + Len(formatted_content) > max_context_length
         THEN LET remaining_space == max_context_length - current_length IN
              IF remaining_space > MIN_USEFUL_SPACE
              THEN Append(context_parts,
                          SliceTo(formatted_content, remaining_space - 3) \o Ellipsis)
              ELSE context_parts
         ELSE PackContext(search_results, i + 1, max_context_length,
                          Append(context_parts, formatted_content),
                          current_length + Len(formatted_content))

(* RAGPipeline.generate_context after query_documents returned
   search_results: the list context_parts and the string returned. *)
generate_context_body(search_results, max_context_length) ==
    IF search_results = <<>>
    THEN [value |-> <<>>, parts |-> <<>>]
    ELSE LET context_parts == PackContext(search_results, 1, max_context_length, <<>>, 0)
         IN  [value |-> Join(context_parts, ContextSeparator), parts |-> context_parts]

(* RAGPipeline.delete_document after _ensure_initialized *)
delete_document_body(coll, filename, delete_fails) ==
    delete_by_metadata(coll, [filename |-> filename], delete_fails)

(* RAGPipeline.get_pipeline_stats after _ensure_initialized *)
get_pipeline_stats_body(coll, loaded, stats_fail) ==
    [is_initialized    |-> TRUE,
     vector_store      |-> get_collection_stats(coll, stats_fail),
     embedding_service |-> get_model_info(loaded),
     supported_formats |-> SUPPORTED_FORMATS]

(* RAGPipeline.reset_pipeline after _ensure_initialized *)
reset_pipeline_body(st, reset_fails) == reset_collection(st, reset_fails)

-----------------------------------------------------------------------------
(* Inputs *)

DocEnvs == [fail_batch : {0, 1}, add_fails : BOOLEAN]

BatchPaths == {"a.txt", "c.txt", "blank.txt"}

(* A failing insert is drawn only for a document that reaches the insert,
   and for at most one document of a batch. *)
BatchEnvSeqs(ps) ==
    {[i \in 1..Len(ps) |-> [fail_batch |-> 0, add_fails |-> (i = k)]] :
        k \in {0} \cup {i \in 1..Len(ps) : ps[i] \in {"a.txt", "c.txt"}}}

(* A failing search is drawn with a succeeding encode: the search is what
   decides the outcome then. *)
QueryEnvs ==
    {e \in [fail_batch : {0, 1}, query_fails : BOOLEAN] :
        e.query_fails => e.fail_batch = 0}

TopKs == {1, DEFAULT_TOP_K}

Filters == {NoFilter, [filename |-> "a.txt"]}

(* top_k and metadata_filter of a query: a filter comes with the default
   top_k. *)
QueryArgs ==
    {a \in [top_k : TopKs, metadata_filter : Filters] :
        a.metadata_filter # NoFilter => a.top_k = DEFAULT_TOP_K}

(* The calls of query_documents: a blank query and a failing collaborator
   are drawn with the default top_k and no filter.  The thresholds are 0.0,
   0.5 and 1.0 in units of 1/ScoreDen. *)
QueryCalls ==
    {c \in [query : {<<>>, <<" ">>, <<"a">>, <<"b">>}, args : QueryArgs,
            similarity_threshold : {0, 1, 2}, env : QueryEnvs] :
        /\ (IsBlank(c.query) \/ c.env.fail_batch # 0 \/ c.env.query_fails) =>
               c.args = [top_k |-> DEFAULT_TOP_K, metadata_filter |-> NoFilter]
        /\ IsBlank(c.query) =>
               c.env = [fail_batch |-> 0, query_fails |-> FALSE]}

ModelNames == {DEFAULT_MODEL, OtherModel}

(* The callers of the API whose calls may overlap: two that ingest and one
   that queries.  No call is under way. *)
Ingesters == {"w1", "w2"}

Querier == "q"

NoCalls == [c \in Ingesters \cup {Querier} |-> [pc |-> "idle"]]

(* Whether opening the store and loading the model succeed is drawn only
   where the code attempts them: neither is attempted again once done. *)
InitEnvs ==
    {e \in [store_ok : BOOLEAN, load_ok : BOOLEAN] :
        (vs_initialized => e.store_ok) /\ (is_loaded => e.load_ok)}

-----------------------------------------------------------------------------
(* The pipeline: Init is the state after RAGPipeline(), as api.py builds it *)

Init ==
    /\ is_initialized = FALSE
    /\ vs_initialized = FALSE
    /\ is_loaded = FALSE
    /\ model_name = DEFAULT_MODEL
    /\ collection = {}
    /\ coll_dim = 0
    /\ next_id = 0
    /\ coll_exists = TRUE
    /\ lastOp = "none"
    /\ calls = NoCalls
    /\ ret = [raised |-> FALSE]

SetStore(st) ==
    /\ collection' = st.coll
    /\ coll_dim' = st.dim
    /\ next_id' = st.next_id
    /\ coll_exists' = st.exists

Initialize(store_ok, load_ok) ==
    LET i == initialize(store_ok, load_ok) IN
    /\ is_initialized' = i.init
    /\ vs_initialized' = i.vs
    /\ is_loaded' = i.loaded
    /\ lastOp' = "initialize"
    /\ UNCHANGED calls
    /\ ret' = [raised |-> FALSE, value |-> i.value,
               store_opened |-> i.store_opened, load_attempted |-> i.load_attempted]
    /\ UNCHANGED <<model_name, collection, coll_dim, next_id, coll_exists>>

ProcessDocument(file_path, store_ok, load_ok, env) ==
    LET g == ensure_initialized(store_ok, load_ok) IN
    /\ lastOp' = "process_document"
    /\ UNCHANGED calls
    /\ is_initialized' = g.init
    /\ vs_initialized' = g.vs
    /\ UNCHANGED model_name
    /\ IF g.raised
       THEN /\ ret' = NotInitialized
            /\ is_loaded' = g.loaded
            /\ UNCHANGED <<collection, coll_dim, next_id, coll_exists>>
       ELSE \E r \in {process_document_try(Store, g.loaded, file_path, load_ok, env)} :
            /\ r.st.next_id <= MaxIds
            /\ ret' = [raised |-> FALSE, value |-> r.out, file_path |-> file_path,
                       embedded |-> r.embedded, inserted |-> r.inserted]
            /\ is_loaded' = r.loaded
            /\ SetStore(r.st)

ProcessMultipleDocuments(file_paths, store_ok, load_ok, envs) ==
    LET g == ensure_initialized(store_ok, load_ok) IN
    /\ lastOp' = "process_multiple_documents"
    /\ UNCHANGED calls
    /\ is_initialized' = g.init
    /\ vs_initialized' = g.vs
    /\ UNCHANGED model_name
    /\ IF g.raised
       THEN /\ ret' = NotInitialized
            /\ is_loaded' = g.loaded
            /\ UNCHANGED <<collection, coll_dim, next_id, coll_exists>>
       ELSE \E r \in {process_multiple_documents_body(Store, g.loaded, file_paths,
                                                       load_ok, envs)} :
                /\ r.st.next_id <= MaxIds
                /\ ret' = [raised |-> FALSE, value |-> r.results,
                           file_paths |-> file_paths]
                /\ is_loaded' = r.loaded
                /\ SetStore(r.st)

QueryDocuments(query, top_k, metadata_filter, similarity_threshold, store_ok, load_ok, env) ==
    LET g == ensure_initialized(store_ok, load_ok) IN
    /\ lastOp' = "query_documents"
    /\ UNCHANGED calls
    /\ is_initialized' = g.init
    /\ vs_initialized' = g.vs
    /\ is_loaded' = g.loaded
    /\ UNCHANGED <<model_name, collection, coll_dim, next_id, coll_exists>>
    /\ IF g.raised
       THEN ret' = [raised |-> TRUE, error |-> NotInitialized.error, query |-> query]
       ELSE \E v \in query_documents_body(g.loaded, query, top_k, metadata_filter,
                                          similarity_threshold, load_ok, env) :
                ret' = [raised |-> FALSE, value |-> v.value, query |-> query,
                        similarity_threshold |-> similarity_threshold,
                        results |-> v.results, embedded |-> v.embedded,
                        searched |-> v.searched]

Next ==
    \/ \E ie \in InitEnvs : Initialize(ie.store_ok, ie.load_ok)
    \/ \E p \in Paths, ie \in InitEnvs, env \in DocEnvs :
          ProcessDocument(p, ie.store_ok, ie.load_ok, env)
    \/ \E ps \in SeqsUpTo(BatchPaths, MaxBatch), ie \in InitEnvs :
          \E envs \in BatchEnvSeqs(ps) :
              ProcessMultipleDocuments(ps, ie.store_ok, ie.load_ok, envs)
    \/ \E c \in QueryCalls, ie \in InitEnvs :
          QueryDocuments(c.query, c.args.top_k, c.args.metadata_filter,
                         c.similarity_threshold, ie.store_ok, ie.load_ok, c.env)

Spec == Init /\ [][Next]_vars

-----------------------------------------------------------------------------
(* Claims about ingestion and query of the pipeline, checked under Spec *)

(* C1: process_document never raises to its caller: in every pipeline
   state, a pipeline whose initialization fails included, it returns an
   outcome dictionary with a 'success' flag. *)
C1_ProcessDocumentNeverRaises ==
    lastOp = "process_document" =>
        /\ ~ret.raised
        /\ "success" \in DOMAIN ret.value

(* C2: query_documents never raises and always returns a (possibly empty)
   list, also when the initialization of a cold-started pipeline fails. *)
C2_QueryNeverRaises ==
    lastOp = "query_documents" => ~ret.raised

(* C3: whenever process_document returns a failure outcome, chunks_added
   is 0 and the records of the vector index, hence total_chunks of the
   collection statistics, are what they were before the call. *)
C3_FailureLeavesIndexUnchanged ==
    [][(lastOp' = "process_document" /\ ~ret'.raised /\ ~ret'.value.success) =>
          /\ ret'.value.chunks_added = 0
          /\ collection' = collection
          /\ get_collection_stats(collection', FALSE).total_chunks =
             get_collection_stats(collection, FALSE).total_chunks]_vars

(* A failed insert into a collection that already holds records. *)
C3_Witness ==
    /\ lastOp = "process_document"
    /\ ~ret.raised
    /\ ~ret.value.success
    /\ ret.value.error = "Could not add documents to vector store"
    /\ collection # {}

(* C4: process_multiple_documents processes every path whatever failed
   before it, and its summary satisfies successful + failed =
   total_documents = len(paths), len(processed_files) = successful,
   len(errors) = failed, and total_chunks = the sum of chunks_added over
   the successful paths. *)
C4_BatchSummary ==
    (lastOp = "process_multiple_documents" /\ ~ret.raised) =>
        LET s == ret.value
            n == Len(ret.file_paths)
        IN  /\ s.total_documents = n
            /\ s.successful + s.failed = n
            /\ Len(s.processed_files) = s.successful
            /\ Len(s.errors) = s.failed
            /\ Len(s.outcomes) = n
            /\ {s.processed_files[i].file : i \in 1..Len(s.processed_files)} \cup
               {s.errors[i].file : i \in 1..Len(s.errors)} = Range(ret.file_paths)
            /\ s.total_chunks =
                  SumSeq([i \in 1..n |-> IF s.outcomes[i].success
                                         THEN s.outcomes[i].chunks_added ELSE 0])
            /\ s.total_chunks =
                  SumSeq([i \in 1..Len(s.processed_files) |-> s.processed_files[i].chunks])

(* A batch whose first document fails and whose second succeeds. *)
C4_Witness ==
    /\ lastOp = "process_multiple_documents"
    /\ ~ret.raised
    /\ Len(ret.file_paths) = 2
    /\ ~ret.value.outcomes[1].success
    /\ ret.value.outcomes[2].success
    /\ ret.value.total_chunks > 0

(* C11: query_documents returns exactly the results of the index search
   whose similarity_score is at least similarity_threshold, in the order
   the search returned them; with threshold 0.0 nothing is removed, and
   with a threshold above the best score the list is empty. *)
C11_ThresholdKeepsSubsequence ==
    (lastOp = "query_documents" /\ ~ret.raised) =>
        LET v    == ret.value
            s    == ret.results
            th   == ret.similarity_threshold
            keep == {i \in 1..Len(s) : s[i].similarity_score >= th}
        IN  /\ Len(v) = Cardinality(keep)
            /\ \A j \in keep : v[Cardinality({x \in keep : x <= j})] = s[j]
            /\ th = 0 => v = s
            /\ (\A i \in 1..Len(s) : s[i].similarity_score < th) => v = <<>>

(* A search returned several results and the threshold, equal to the best
   score, removed some of them and kept the others. *)
C11_Witness ==
    /\ lastOp = "query_documents"
    /\ ~ret.raised
    /\ Len(ret.results) >= 2
    /\ Len(ret.value) >= 1
    /\ Len(ret.value) < Len(ret.results)
    /\ ret.value[1].similarity_score = ret.similarity_threshold

(* C12: for an empty or whitespace-only query, query_documents returns an
   empty list, and neither embeds the query nor searches the index. *)
C12_BlankQueryReturnsEmpty ==
    (lastOp = "query_documents" /\ IsBlank(ret.query)) =>
        /\ ~ret.raised
        /\ ret.value = <<>>
        /\ ~ret.embedded
        /\ ~ret.searched

(* C18: when the extraction succeeds and the text is empty or all
   whitespace, split_text gives no chunk and process_document returns the
   failure outcome 'No chunks generated from document', without calling the
   embedding service or inserting into the index. *)
C18_BlankTextGivesNoChunksOutcome ==
    (/\ lastOp = "process_document"
     /\ ~ret.raised
     /\ ~DP_process_document(ret.file_path).raised
     /\ IsBlank(DP_process_document(ret.file_path).text)) =>
        /\ split_text(DP_process_document(ret.file_path).text,
                      DP_process_document(ret.file_path).metadata,
                      DEFAULT_CHUNK_SIZE, DEFAULT_OVERLAP) = <<>>
        /\ ~ret.value.success
        /\ ret.value.error = "No chunks generated from document"
        /\ ret.value.chunks_added = 0
        /\ ~ret.embedded
        /\ ~ret.inserted

(* A file of blanks was processed by a pipeline that holds records. *)
C18_Witness ==
    /\ lastOp = "process_document"
    /\ ~ret.raised
    /\ ret.file_path = "blank.txt"
    /\ ret.value.error = "No chunks generated from document"
    /\ collection # {}

-----------------------------------------------------------------------------
(* The embedding service called on its own: SpecEmbed *)

EmbedTexts == {<<"a">>, <<" ", "b">>, <<" ">>}

LoadEnvs == {ok \in BOOLEAN : is_loaded => ok}

InitEmbed ==
    /\ is_initialized = FALSE
    /\ vs_initialized = FALSE
    /\ is_loaded = FALSE
    /\ model_name \in ModelNames
    /\ collection = {}
    /\ coll_dim = 0
    /\ next_id = 0
    /\ coll_exists = TRUE
    /\ lastOp = "none"
    /\ calls = NoCalls
    /\ ret = [raised |-> FALSE]

GenerateEmbeddings(texts, batch_size, load_ok, fail_batch) ==
    \E r \in {generate_embeddings(is_loaded, texts, batch_size, load_ok, fail_batch)} :
        /\ lastOp' = "generate_embeddings"
        /\ UNCHANGED calls
        /\ is_loaded' = r.loaded
        /\ ret' = [raised |-> r.raised, value |-> r.value, texts |-> texts,
                   batch_size |-> batch_size, fail_batch |-> fail_batch,
                   model_ready |-> is_loaded \/ load_ok,
                   load_attempted |-> r.load_attempted]
        /\ UNCHANGED <<is_initialized, vs_initialized, model_name,
                       collection, coll_dim, next_id, coll_exists>>

GenerateEmbedding(text, load_ok, fail_batch) ==
    \E r \in {generate_embedding(is_loaded, text, load_ok, fail_batch)} :
        /\ lastOp' = "generate_embedding"
        /\ UNCHANGED calls
        /\ is_loaded' = r.loaded
        /\ ret' = [raised |-> r.raised, value |-> r.value, text |-> text,
                   load_attempted |-> r.load_attempted]
        /\ UNCHANGED <<is_initialized, vs_initialized, model_name,
                       collection, coll_dim, next_id, coll_exists>>

(* EmbeddingService.load_model, as RAGPipeline.initialize calls it *)
LoadModel(load_ok) ==
    \E m \in {load_model(load_ok)} :
        /\ lastOp' = "load_model"
        /\ UNCHANGED calls
        /\ is_loaded' = m.loaded
        /\ ret' = [raised |-> m.raised, load_attempted |-> m.attempted]
        /\ UNCHANGED <<is_initialized, vs_initialized, model_name,
                       collection, coll_dim, next_id, coll_exists>>

(* EmbeddingService.cleanup: a model that is held is dropped and
   _is_loaded is cleared; without a model nothing changes. *)
Cleanup ==
    /\ lastOp' = "cleanup"
    /\ UNCHANGED calls
    /\ is_loaded' = FALSE
    /\ ret' = [raised |-> FALSE, was_loaded |-> is_loaded, load_attempted |-> FALSE]
    /\ UNCHANGED <<is_initialized, vs_initialized, model_name,
                   collection, coll_dim, next_id, coll_exists>>

(* The failing batch is drawn among the batches that MaxTexts texts can
   form with the batch size (0: none fails). *)
NextEmbed ==
    \/ \E ok \in LoadEnvs : LoadModel(ok)
    \/ Cleanup
    \/ \E texts \in SeqsUpTo(EmbedTexts, MaxTexts), bs \in {1, 2, DEFAULT_BATCH_SIZE},
          ok \in LoadEnvs :
          \E fb \in 0..((MaxTexts + bs - 1) \div bs) : GenerateEmbeddings(texts, bs, ok, fb)
    \/ \E text \in EmbedTexts \cup {<<>>}, ok \in LoadEnvs, fb \in {0, 1} :
          GenerateEmbedding(text, ok, fb)

SpecEmbed == InitEmbed /\ [][NextEmbed]_vars

(* The model raised while encoding a batch of the call recorded in ret:
   the model was loaded or could be loaded, and batch fail_batch exists
   among the batches of the non-empty texts. *)
EncodeRaised ==
    /\ ret.model_ready
    /\ ret.fail_batch >= 1
    /\ (ret.fail_batch - 1) * ret.batch_size < Len(NonEmptyTexts(ret.texts))

(* C5: generate_embeddings(texts) returns len(texts) vectors in input
   order, vector i being that of texts[i]; the position of an empty or
   whitespace-only input holds a zero vector of the fixed dimension. *)
C5_CountAndOrderPreserved ==
    (lastOp = "generate_embeddings" /\ ~ret.raised /\ ~EncodeRaised) =>
        /\ Len(ret.value) = Len(ret.texts)
        /\ \A i \in 1..Len(ret.texts) :
              ret.value[i] = IF IsBlank(ret.texts[i]) THEN ZeroVector
                             ELSE Encode(Strip(ret.texts[i]))

(* C6: if the model raises while encoding a batch, generate_embeddings
   does not raise and returns len(texts) zero vectors of the fixed
   dimension, whatever earlier batches produced. *)
C6_EncodeFailureGivesZeroVectors ==
    (lastOp = "generate_embeddings" /\ EncodeRaised) =>
        /\ ~ret.raised
        /\ Len(ret.value) = Len(ret.texts)
        /\ \A i \in 1..Len(ret.value) :
              /\ ret.value[i].dim = EMBEDDING_DIMENSION
              /\ ret.value[i].c = <<0, 0>>

(* The second batch fails after the first was encoded, for a model whose
   own dimension is not the fixed one. *)
C6_Witness ==
    /\ lastOp = "generate_embeddings"
    /\ ret.fail_batch = 2
    /\ EncodeRaised
    /\ Len(ret.texts) = 3
    /\ model_name = OtherModel
    /\ ~ret.raised
    /\ ret.value = ZeroVectors(3)

(* C17: the embedding model is loaded at most once and then reused, and
   once an attempt to load it has failed no later call attempts to load it
   again. *)
C17_LoadedOnceNeverRetried ==
    [][lastOp' \in {"generate_embeddings", "generate_embedding", "load_model"} =>
          /\ is_loaded => (is_loaded' /\ ~ret'.load_attempted)
          /\ (lastOp # "none" /\ ret.load_attempted /\ ~is_loaded) =>
                 ~ret'.load_attempted]_vars

-----------------------------------------------------------------------------
(* The vector store called on its own: SpecStore *)

(* The (text, vector, metadata) triples an insert draws from *)
StoreTriples ==
    {[text |-> <<"a">>, vec |-> Vec(384, -1, 0), meta |-> [filename |-> "a.txt"]],
     [text |-> <<"c">>, vec |-> Vec(384, 0, 2),  meta |-> [filename |-> "c.txt"]],
     [text |-> <<"a">>, vec |-> Vec(768, 1, 0),  meta |-> [filename |-> "a.txt"]]}

(* The arguments of an insert: the texts, vectors and metadatas of up to
   MaxArgLen triples, each list cut to a length of its own. *)
AddArgs ==
    {[texts      |-> [i \in 1..kt |-> s[i].text],
      embeddings |-> [i \in 1..ke |-> s[i].vec],
      metadatas  |-> [i \in 1..km |-> s[i].meta]] :
        s \in [1..MaxArgLen -> StoreTriples],
        kt \in 0..MaxArgLen, ke \in 0..MaxArgLen, km \in 0..MaxArgLen}

QueryVecs == {EmptyVec, Vec(384, 1, 0), Vec(384, -1, 0), ZeroVector, Vec(768, 1, 0)}

StoreEnvs == {ok \in BOOLEAN : vs_initialized => ok}

StoreNotInitialized == [raised |-> TRUE, error |-> "Could not initialize vector store"]

AddDocuments(texts, embeddings, metadatas, document_ids, store_ok, add_fails) ==
    LET v == vs_initialize(store_ok) IN
    /\ lastOp' = "add_documents"
    /\ UNCHANGED calls
    /\ vs_initialized' = v.vs
    /\ UNCHANGED <<is_initialized, is_loaded, model_name>>
    /\ IF v.raised
       THEN /\ ret' = StoreNotInitialized
            /\ UNCHANGED <<collection, coll_dim, next_id, coll_exists>>
       ELSE \E r \in {add_documents(Store, texts, embeddings, metadatas,
                                     document_ids, add_fails)} :
                /\ r.st.next_id <= MaxIds
                /\ ret' = [raised       |-> r.raised,
                           error        |-> r.error,
                           value        |-> r.value,
                           n_texts      |-> Len(texts),
                           n_embeddings |-> Len(embeddings),
                           n_metadatas  |-> Len(metadatas),
                           ids_given    |-> document_ids.given]
                /\ SetStore(r.st)

SearchSimilar(query_embedding, n_results, metadata_filter, store_ok, query_fails) ==
    LET v == vs_initialize(store_ok) IN
    /\ lastOp' = "search_similar"
    /\ UNCHANGED calls
    /\ vs_initialized' = v.vs
    /\ UNCHANGED <<is_initialized, is_loaded, model_name, collection, coll_dim, next_id, coll_exists>>
    /\ IF v.raised
       THEN ret' = StoreNotInitialized
       ELSE \E s \in search_similar(collection, coll_dim, query_embedding, n_results,
                                     metadata_filter, query_fails) :
                ret' = [raised |-> FALSE, value |-> s.value, distances |-> s.distances]

NextStore ==
    \/ \E a \in AddArgs, document_ids \in {[given |-> FALSE, ids |-> <<>>]}, ok \in StoreEnvs,
          add_fails \in BOOLEAN :
          AddDocuments(a.texts, a.embeddings, a.metadatas, document_ids, ok, add_fails)
    \/ \E q \in QueryVecs, k \in TopKs \cup {0}, f \in Filters,
          ok \in StoreEnvs, query_fails \in BOOLEAN :
          SearchSimilar(q, k, f, ok, query_fails)

SpecStore == Init /\ [][NextStore]_vars

(* C7: add_documents fails with the length-mismatch error whenever texts,
   embeddings and metadatas differ in length, also when one of them is
   empty and the others are not. *)
C7_LengthMismatchRaises ==
    (/\ lastOp = "add_documents"
     /\ vs_initialized
     /\ \/ ret.n_texts # ret.n_embeddings
        \/ ret.n_texts # ret.n_metadatas) =>
        /\ ret.raised
        /\ ret.error = "Texts, embeddings, and metadatas must have same length"

(* C8: an insert of N aligned triples without ids returns N ids that are
   pairwise distinct and distinct from every id already in the collection,
   and total_chunks of the collection statistics grows by exactly N. *)
C8_InsertAssignsFreshIds ==
    [][(/\ lastOp' = "add_documents"
        /\ ~ret'.raised
        /\ ~ret'.ids_given
        /\ ret'.n_texts = ret'.n_embeddings
        /\ ret'.n_texts = ret'.n_metadatas) =>
          LET N   == ret'.n_texts
              ids == ret'.value
          IN  /\ Len(ids) = N
              /\ Cardinality(Range(ids)) = N
              /\ Range(ids) \cap IdsOf(collection) = {}
              /\ Range(ids) \subseteq IdsOf(collection')
              /\ get_collection_stats(collection', FALSE).total_chunks =
                 get_collection_stats(collection, FALSE).total_chunks + N]_vars

(* Two triples were inserted into a collection that held a record. *)
C8_Witness ==
    /\ lastOp = "add_documents"
    /\ ~ret.raised
    /\ ret.n_texts = 2
    /\ Len(ret.value) = 2
    /\ Cardinality(collection) = 3

(* C9: every result of search_similar has a similarity score in [0,1],
   at every distance the index reports, distances above 2 included. *)
C9_ScoreInUnitInterval ==
    (lastOp = "search_similar" /\ ~ret.raised) =>
        \A i \in 1..Len(ret.value) :
            /\ ret.value[i].similarity_score >= 0
            /\ ret.value[i].similarity_score <= ScoreDen

(* A result at a distance above 2, and one at distance 0. *)
C9_Witness ==
    /\ lastOp = "search_similar"
    /\ ~ret.raised
    /\ \E i \in 1..Len(ret.value) : ret.distances[i] > 2
    /\ \E i \in 1..Len(ret.value) :
          ret.distances[i] = 0 /\ ret.value[i].similarity_score = ScoreDen

(* C10: of any two results of a search the one at the smaller distance has
   the higher similarity score, and the list is in descending order of
   score. *)
C10_CloserScoresHigher ==
    (lastOp = "search_similar" /\ ~ret.raised) =>
        /\ \A i, j \in 1..Len(ret.value) :
              ret.distances[i] < ret.distances[j] =>
                  ret.value[i].similarity_score > ret.value[j].similarity_score
        /\ \A i, j \in 1..Len(ret.value) :
              i < j => ret.value[i].similarity_score >= ret.value[j].similarity_score

-----------------------------------------------------------------------------
(* Context generation over a persisted collection: SpecContext *)

Repeat(ch, n) == [i \in 1..n |-> ch]

(* The stored chunk texts: a short one with a trailing blank and one longer
   than the minimum useful space. *)
ContextDocs == {<<"a", " ">>, Repeat("b", LongLen)}

(* The embedding of the i-th stored chunk: the query "a" ranks them in the
   order of i. *)
RankVec(i) ==
    CASE i = 1 -> Vec(EMBEDDING_DIMENSION, 1, 0)
      [] i = 2 -> Vec(EMBEDDING_DIMENSION, 0, 1)
      [] i = 3 -> Vec(EMBEDDING_DIMENSION, -1, 0)
      [] OTHER -> Vec(EMBEDDING_DIMENSION, 0, -1)

(* The metadata of the i-th stored chunk: the third has no filename. *)
RankMetadata(i) ==
    CASE i = 1 -> [filename |-> "a.txt"]
      [] i = 2 -> [filename |-> "c.txt"]
      [] OTHER -> [chunk_index |-> 0]

(* The collections found on disk when the store is opened. *)
ContextCollections ==
    {{[id |-> i, document |-> docs[i], embedding |-> RankVec(i),
       metadata |-> RankMetadata(i)] : i \in 1..Len(docs)} :
        docs \in SeqsUpTo(ContextDocs, MaxResults)}

InitContext ==
    /\ is_initialized = FALSE
    /\ vs_initialized = FALSE
    /\ is_loaded = FALSE
    /\ model_name = DEFAULT_MODEL
    /\ collection \in ContextCollections
    /\ coll_dim = IF collection = {} THEN 0 ELSE EMBEDDING_DIMENSION
    /\ next_id = Cardinality(collection)
    /\ coll_exists = TRUE
    /\ lastOp = "none"
    /\ calls = NoCalls
    /\ ret = [raised |-> FALSE]

(* RAGPipeline.generate_context: query_documents(query, top_k) raises through
   it when the pipeline cannot be initialized. *)
GenerateContext(query, max_context_length, top_k, store_ok, load_ok, env) ==
    LET g == ensure_initialized(store_ok, load_ok) IN
    /\ lastOp' = "generate_context"
    /\ UNCHANGED calls
    /\ is_initialized' = g.init
    /\ vs_initialized' = g.vs
    /\ is_loaded' = g.loaded
    /\ UNCHANGED <<model_name, collection, coll_dim, next_id, coll_exists>>
    /\ IF g.raised
       THEN ret' = [raised |-> TRUE, error |-> NotInitialized.error, query |-> query]
       ELSE \E v \in query_documents_body(g.loaded, query, top_k, NoFilter, 0,
                                          load_ok, env) :
            \E c \in {generate_context_body(v.value, max_context_length)} :
                ret' = [raised |-> FALSE, value |-> c.value, parts |-> c.parts,
                        results |-> v.value, query |-> query,
                        max_context_length |-> max_context_length]

NextContext ==
    \E q \in {<<" ">>, <<"a">>}, m \in {0, 18, 36, 110, 120, 140, 250, DEFAULT_MAX_CONTEXT_LENGTH}, k \in TopKs,
       ie \in InitEnvs, env \in QueryEnvs :
        GenerateContext(q, m, k, ie.store_ok, ie.load_ok, env)

SpecContext == InitContext /\ [][NextContext]_vars

(* C13: the string generate_context returns, separators included, is never
   longer than max_context_length. *)
C13_ContextWithinMaxLength ==
    (lastOp = "generate_context" /\ ~ret.raised) =>
        Len(ret.value) <= ret.max_context_length

(* C14: generate_context packs, in ranking order and in full, the longest
   prefix of the results that fits; if an entry does not fit, no later entry
   is included, and a copy of that entry cut to the remaining budget and
   ending in '...' is appended if and only if the remaining budget exceeds
   100 characters. *)
C14_PrefixThenOneTruncatedEntry ==
    (lastOp = "generate_context" /\ ~ret.raised) =>
        LET R == ret.results
            P == ret.parts
            M == ret.max_context_length
            n == Len(R)
            F == [i \in 1..n |-> FormatEntry(R[i])]
            Total(j) == SumSeq([i \in 1..j |-> Len(F[i])])
            k == CHOOSE j \in 0..n :
                    /\ Total(j) <= M
                    /\ \A h \in 0..n : Total(h) <= M => h <= j
            rem == M - Total(k)
        IN  /\ Len(P) = IF k < n /\ rem > MIN_USEFUL_SPACE THEN k + 1 ELSE k
            /\ \A i \in 1..k : P[i] = F[i]
            /\ Len(P) = k + 1 =>
                  /\ Len(P[k + 1]) = rem
                  /\ SubSeq(P[k + 1], rem - 2, rem) = Ellipsis
                  /\ SubSeq(P[k + 1], 1, rem - 3) = SubSeq(F[k + 1], 1, rem - 3)
            /\ ret.value = Join(P, ContextSeparator)

(* One entry was packed in full, the next one was cut and ended the context,
   and a third result was left out. *)
C14_Witness ==
    /\ lastOp = "generate_context"
    /\ ~ret.raised
    /\ Len(ret.results) = 3
    /\ Len(ret.parts) = 2
    /\ ret.parts[1] = FormatEntry(ret.results[1])
    /\ ret.parts[2] # FormatEntry(ret.results[2])
    /\ SubSeq(ret.parts[2], Len(ret.parts[2]) - 2, Len(ret.parts[2])) = Ellipsis

-----------------------------------------------------------------------------
(* Every outward operation of the pipeline from a cold start: SpecOps *)

DeleteDocument(filename, store_ok, load_ok, delete_fails) ==
    LET g == ensure_initialized(store_ok, load_ok) IN
    /\ lastOp' = "delete_document"
    /\ UNCHANGED calls
    /\ is_initialized' = g.init
    /\ vs_initialized' = g.vs
    /\ is_loaded' = g.loaded
    /\ UNCHANGED <<model_name, coll_dim, next_id, coll_exists>>
    /\ IF g.raised
       THEN /\ ret' = NotInitialized
            /\ UNCHANGED collection
       ELSE \E r \in {delete_document_body(collection, filename, delete_fails)} :
            /\ ret' = [raised |-> FALSE, value |-> r.value, filename |-> filename,
                       delete_raised |-> r.raised,
                       removed |-> Cardinality(collection) - Cardinality(r.coll)]
            /\ collection' = r.coll

GetPipelineStats(store_ok, load_ok, stats_fail) ==
    LET g == ensure_initialized(store_ok, load_ok) IN
    /\ lastOp' = "get_pipeline_stats"
    /\ UNCHANGED calls
    /\ is_initialized' = g.init
    /\ vs_initialized' = g.vs
    /\ is_loaded' = g.loaded
    /\ UNCHANGED <<model_name, collection, coll_dim, next_id, coll_exists>>
    /\ IF g.raised
       THEN ret' = NotInitialized
       ELSE ret' = [raised |-> FALSE, stats_fail |-> stats_fail,
                    value  |-> get_pipeline_stats_body(collection, g.loaded, stats_fail)]

ResetPipeline(store_ok, load_ok, reset_fails) ==
    LET g == ensure_initialized(store_ok, load_ok) IN
    /\ lastOp' = "reset_pipeline"
    /\ UNCHANGED calls
    /\ is_initialized' = g.init
    /\ vs_initialized' = g.vs
    /\ is_loaded' = g.loaded
    /\ UNCHANGED model_name
    /\ IF g.raised
       THEN /\ ret' = NotInitialized
            /\ UNCHANGED <<collection, coll_dim, next_id, coll_exists>>
       ELSE \E r \in {reset_pipeline_body(Store, reset_fails)} :
            /\ ret' = [raised |-> FALSE, value |-> r.value, reset_fails |-> reset_fails,
                       dropped |-> Cardinality(collection)]
            /\ SetStore(r.st)

OpsEnv == [fail_batch |-> 0, add_fails |-> FALSE]

OpsQueryEnv == [fail_batch |-> 0, query_fails |-> FALSE]

NextOps ==
    \/ \E ie \in InitEnvs : Initialize(ie.store_ok, ie.load_ok)
    \/ \E p \in {"a.txt", "c.txt", "blank.txt"}, ie \in InitEnvs :
          ProcessDocument(p, ie.store_ok, ie.load_ok, OpsEnv)
    \/ \E ps \in {<<"c.txt">>, <<"c.txt", "a.txt">>}, ie \in InitEnvs :
          ProcessMultipleDocuments(ps, ie.store_ok, ie.load_ok,
                                   [i \in 1..Len(ps) |-> OpsEnv])
    \/ \E q \in {<<"a">>, <<"c">>}, ie \in InitEnvs :
          QueryDocuments(q, DEFAULT_TOP_K, NoFilter, 0, ie.store_ok, ie.load_ok,
                         OpsQueryEnv)
    \/ \E q \in {<<"c">>}, ie \in InitEnvs :
          GenerateContext(q, DEFAULT_MAX_CONTEXT_LENGTH, DEFAULT_TOP_K,
                          ie.store_ok, ie.load_ok, OpsQueryEnv)
    \/ \E f \in {"a.txt", "c.txt"}, ie \in InitEnvs, df \in BOOLEAN :
          DeleteDocument(f, ie.store_ok, ie.load_ok, df)
    \/ \E ie \in InitEnvs, sf \in BOOLEAN :
          GetPipelineStats(ie.store_ok, ie.load_ok, sf)
    \/ \E ie \in InitEnvs, rf \in ResetFaults :
          ResetPipeline(ie.store_ok, ie.load_ok, rf)

SpecOps == Init /\ [][NextOps]_vars

(* C15: once initialize() has succeeded, a further initialize() returns
   True, opens no store, loads no model and leaves the state of the
   pipeline, the store and the embedding service as it was. *)
C15_ReinitializeIsNoOp ==
    [][(is_initialized /\ lastOp' = "initialize") =>
          /\ ret'.value = TRUE
          /\ ~ret'.store_opened
          /\ ~ret'.load_attempted
          /\ UNCHANGED <<is_initialized, vs_initialized, is_loaded, model_name,
                         collection, coll_dim, next_id, coll_exists>>]_vars

(* initialize() was called on an initialized pipeline that holds records. *)
C15_Witness ==
    /\ lastOp = "initialize"
    /\ is_initialized
    /\ ret.value = TRUE
    /\ ~ret.store_opened
    /\ ~ret.load_attempted
    /\ collection # {}

(* C16: each of the seven outward operations, called on a pipeline that is
   not initialized, either initializes it (store opened, model loaded) and
   returns, or fails with the not-initialized error and leaves the pipeline
   uninitialized and the index untouched. *)
C16_PreInitPolicy ==
    [][(/\ ~is_initialized
        /\ lastOp' \in {"process_document", "process_multiple_documents",
                        "query_documents", "generate_context", "delete_document",
                        "get_pipeline_stats", "reset_pipeline"}) =>
          \/ /\ ~ret'.raised
             /\ is_initialized'
             /\ vs_initialized'
             /\ is_loaded'
          \/ /\ ret'.raised
             /\ ret'.error = "RAG pipeline not initialized"
             /\ ~is_initialized'
             /\ UNCHANGED <<collection, coll_dim, next_id, coll_exists>>]_vars

(* delete_document failed with the not-initialized error on a pipeline whose
   store opened and whose model did not load. *)
C16_Witness ==
    /\ lastOp = "delete_document"
    /\ ret.raised
    /\ ret.error = "RAG pipeline not initialized"
    /\ ~is_initialized
    /\ vs_initialized
    /\ ~is_loaded

(* C22: delete_document(filename) removes exactly the records whose filename
   metadata equals the argument and leaves every other record, the
   dimension of the collection and the identifiers as they were; it returns
   True also when no record matches, and False exactly when the underlying
   delete raised, in which case no record is removed. *)
C22_DeleteDocumentExact ==
    [][(lastOp' = "delete_document" /\ ~ret'.raised) =>
          /\ ret'.value = ~ret'.delete_raised
          /\ ret'.value =>
                 collection' = {r \in collection : r.metadata.filename # ret'.filename}
          /\ ~ret'.value => collection' = collection
          /\ UNCHANGED <<coll_dim, next_id, coll_exists>>]_vars

(* delete_document returned True after removing the records of one file and
   leaving those of another. *)
C22_Witness ==
    /\ lastOp = "delete_document"
    /\ ~ret.raised
    /\ ret.value = TRUE
    /\ ret.removed > 0
    /\ collection # {}
    /\ \A r \in collection : r.metadata.filename # ret.filename

(* C23: once reset_pipeline has returned True, the collection exists and
   is empty: the statistics report 0 chunks and 0 documents and every search
   returns no result; and the operation that follows works on that empty
   collection: statistics and queries find nothing, and a successful
   ingestion leaves exactly its own chunks in it. *)
C23_ResetLeavesEmptyCollection ==
    [][(lastOp = "reset_pipeline" /\ ~ret.raised /\ ret.value = TRUE) =>
          /\ collection = {}
          /\ coll_exists
          /\ coll_dim = 0
          /\ get_collection_stats(collection, FALSE) = [document_count |-> 0, total_chunks |-> 0]
          /\ \A q \in QueryVecs, k \in TopKs :
                 \A s \in search_similar(collection, coll_dim, q, k, NoFilter, FALSE) :
                     s.value = <<>>
          /\ (lastOp' = "get_pipeline_stats" /\ ~ret'.raised /\ ~ret'.stats_fail) =>
                 /\ ret'.value.vector_store.total_chunks = 0
                 /\ ret'.value.vector_store.document_count = 0
          /\ (lastOp' = "query_documents" /\ ~ret'.raised) => ret'.results = <<>>
          /\ (lastOp' = "process_document" /\ ~ret'.raised /\ ret'.value.success) =>
                 /\ coll_exists'
                 /\ Cardinality(collection') = ret'.value.chunks_added
                 /\ \A r \in collection' : r.metadata.filename = ret'.value.document_id]_vars

(* reset_pipeline returned True on a collection that held records. *)
C23_Witness ==
    /\ lastOp = "reset_pipeline"
    /\ ~ret.raised
    /\ ret.value = TRUE
    /\ ret.dropped > 0
    /\ collection = {}

(* C30: a reset that returns False leaves the persisted collection as it
   was: the records stored before are still there and the store goes on
   holding a collection that exists, so that later inserts, searches and
   statistics work. *)
C30_FailedResetKeepsCollection ==
    [][(lastOp' = "reset_pipeline" /\ ~ret'.raised /\ ret'.value = FALSE) =>
          /\ collection' = collection
          /\ coll_dim' = coll_dim
          /\ (vs_initialized' => coll_exists')]_vars

(* What a stored record holds apart from its id *)
RecordContent(r) == [document |-> r.document, embedding |-> r.embedding, metadata |-> r.metadata]

(* C29: ingestion is not idempotent.  A successful process_document leaves
   every record that was stored as it was and adds chunks_added records
   under ids no stored record has; when chunks of the same file are already
   stored, the added records repeat their text, vector and metadata under
   new ids and the number of distinct documents stays the same. *)
C29_IngestionAddsACopy ==
    [][(lastOp' = "process_document" /\ ~ret'.raised /\ ret'.value.success) =>
          LET f   == ret'.value.document_id
              old == {r \in collection : r.metadata.filename = f}
              new == collection' \ collection
          IN  /\ collection \subseteq collection'
              /\ Cardinality(collection') = Cardinality(collection) + ret'.value.chunks_added
              /\ IdsOf(new) \cap IdsOf(collection) = {}
              /\ Cardinality(IdsOf(collection')) = Cardinality(collection')
              /\ old # {} =>
                    /\ {RecordContent(r) : r \in new} = {RecordContent(r) : r \in old}
                    /\ get_collection_stats(collection', FALSE).document_count
                          = get_collection_stats(collection, FALSE).document_count]_vars

(* The same file was ingested a second time: its chunk is stored twice,
   under two ids. *)
C29_Witness ==
    /\ lastOp = "process_document"
    /\ ~ret.raised
    /\ ret.value.success
    /\ \E r1, r2 \in collection :
          /\ r1.id # r2.id
          /\ RecordContent(r1) = RecordContent(r2)
          /\ r1.metadata.filename = ret.value.document_id
    /\ get_collection_stats(collection, FALSE).total_chunks >= 2 * ret.value.chunks_added

-----------------------------------------------------------------------------
(* The document processor on its own: DocumentProcessor.process_document is
   called on files of every kind, with and without PyMuPDF installed. *)

PdfFile(readable, opens, pages) == [path |-> "docs/report.pdf", name |-> "report.pdf", suffix |-> ".pdf", exists |-> TRUE, readable |-> readable, opens |-> opens, text |-> <<>>, pages |-> pages, paragraphs |-> <<>>]

(* PDFs both engines can open, with every combination of page outcomes, and
   one-page PDFs that cannot be read or that an engine cannot open. *)
PdfFiles ==
    {PdfFile(TRUE, {PyMuPDF, PyPDF2}, ps) : ps \in SeqsUpTo(Pages, MaxPages)}
        \cup {PdfFile(r, o, <<[mu |-> "text", py |-> "text"]>>) :
                 r \in BOOLEAN, o \in SUBSET {PyMuPDF, PyPDF2}}

(* The files handed to process_document: the files on disk, the PDFs, a
   .docx file python-docx can or cannot open, and a path with each
   extension that is missing, a directory or a file the process may not read
   (exists, not readable), or a readable file. *)
DocFiles ==
    LET DocxFiles ==
            {[path |-> "docs/letter.docx", name |-> "letter.docx", suffix |-> ".docx",
              exists |-> TRUE, readable |-> r, opens |-> o,
              text |-> <<>>, pages |-> <<>>, paragraphs |-> ps] :
                r \in BOOLEAN, o \in SUBSET {PythonDocx},
                ps \in {<<>>, <<<<"a">>>>, <<<<"a">>, <<" ">>, <<"b">>>>}}
        PlainFiles ==
            {[path |-> "docs/notes" \o sfx, name |-> "notes" \o sfx, suffix |-> sfx,
              exists |-> e, readable |-> r, opens |-> {},
              text |-> txt, pages |-> <<>>, paragraphs |-> <<>>] :
                sfx \in {".txt", ".pdf", ".docx", ".doc", ".rtf", ".odt", ".xyz", ""},
                e \in BOOLEAN, r \in BOOLEAN, txt \in {<<>>, <<"a", " ", "b">>}}
    IN  {File(p) : p \in Paths} \cup PdfFiles \cup DocxFiles
            \cup {f \in PlainFiles : (f.readable => f.exists) /\ (~f.readable => f.text = <<>>)}

ExtractDocument(f, PYMUPDF_AVAILABLE) ==
    LET r == process_file(f, PYMUPDF_AVAILABLE) IN
    /\ lastOp' = "dp_process_document"
    /\ UNCHANGED calls
    /\ ret' = [raised |-> r.raised, error |-> r.error, text |-> r.text,
               metadata |-> r.metadata, file_type |-> r.file_type,
               engines |-> r.engines, file |-> f,
               pymupdf_available |-> PYMUPDF_AVAILABLE]
    /\ UNCHANGED <<is_initialized, vs_initialized, is_loaded, model_name,
                   collection, coll_dim, next_id, coll_exists>>

NextDoc == \E f \in DocFiles, available \in BOOLEAN : ExtractDocument(f, available)

SpecDoc == Init /\ [][NextDoc]_vars

(* C19: process_document fails with the not-found error when the path does
   not resolve to a readable file, whatever its extension; with the
   unsupported-type error when the path resolves and its extension has no
   registered handler (.doc, .rtf, .odt, unknown); with an extraction error
   only when every extraction strategy of the supported type raised; and
   otherwise returns content whose metadata filename is the base name. *)
C19_ProcessDocumentErrors ==
    lastOp = "dp_process_document" =>
        LET f == ret.file
            resolves == f.exists /\ f.readable
            supported == f.suffix \in {".pdf", ".docx", ".txt"}
            mu_raised == process_pdf_with_pymupdf(f).raised
            py_raised == process_pdf_with_pypdf2(f).raised
        IN  /\ ~resolves => (ret.raised /\ ret.error = "File not found")
            /\ (resolves /\ ~supported) =>
                   (ret.raised /\ ret.error = "Unsupported file type")
            /\ (resolves /\ supported /\ ret.raised) =>
                   CASE f.suffix = ".pdf"  -> (ret.pymupdf_available => mu_raised) /\ py_raised
                     [] f.suffix = ".docx" -> PythonDocx \notin f.opens
                     [] OTHER              -> FALSE
            /\ ~ret.raised => ret.metadata.filename = f.name

(* C20: on a PDF that passed the readability test, PyMuPDF is the first
   engine run when it is available; PyPDF2 is run if and only if PyMuPDF is
   unavailable or raised (an engine also raises when it finds no text);
   extraction fails if and only if PyPDF2 was run and raised; and the
   processing_engine tag of a result names the engine whose pages make up the
   returned text. *)
C20_PdfEngineFallback ==
    (lastOp = "dp_process_document" /\ ret.file.exists /\ ret.file.readable
        /\ ret.file.suffix = ".pdf") =>
        LET f == ret.file
            n == Len(f.pages)
            mu_raises == \/ PyMuPDF \notin f.opens
                         \/ \E i \in 1..n : f.pages[i].mu = "raise"
                         \/ \A i \in 1..n : f.pages[i].mu # "text"
            py_raises == \/ PyPDF2 \notin f.opens
                         \/ \A i \in 1..n : f.pages[i].py # "text"
            primary_ran == Len(ret.engines) >= 1 /\ ret.engines[1] = PyMuPDF
            secondary_ran == PyPDF2 \in Range(ret.engines)
            mu_count == Cardinality({i \in 1..n : f.pages[i].mu = "text"})
            py_count == Cardinality({i \in 1..n : f.pages[i].py = "text"})
        IN  /\ primary_ran <=> ret.pymupdf_available
            /\ secondary_ran <=> (~ret.pymupdf_available \/ mu_raises)
            /\ secondary_ran => ret.engines[Len(ret.engines)] = PyPDF2
            /\ ret.raised <=> (secondary_ran /\ py_raises)
            /\ ~ret.raised =>
                   /\ ret.metadata.processing_engine = (IF secondary_ran THEN PyPDF2 ELSE PyMuPDF)
                   /\ ret.text = JoinTexts([i \in 1..(IF secondary_ran THEN py_count ELSE mu_count) |-> PageText], PageSeparator)

(* PyMuPDF ran first and raised because it found no text, then PyPDF2 ran and
   produced the text. *)
C20_Witness ==
    /\ lastOp = "dp_process_document"
    /\ ret.file.suffix = ".pdf" /\ ret.file.readable
    /\ ret.pymupdf_available
    /\ PyMuPDF \in ret.file.opens
    /\ Len(ret.file.pages) = 2
    /\ \A i \in 1..2 : ret.file.pages[i].mu = "empty"
    /\ ret.engines = <<PyMuPDF, PyPDF2>>
    /\ ~ret.raised
    /\ ret.metadata.processing_engine = PyPDF2

(* C27: in a PDF an engine can open, a page without text or a page whose
   extraction raises is skipped and the engine goes on with the other pages:
   whenever an engine runs on a PDF in which it can read some page, its pass
   succeeds and returns the text of all the pages it can read. *)
C27_BadPageIsSkipped ==
    (lastOp = "dp_process_document" /\ ret.file.exists /\ ret.file.readable
        /\ ret.file.suffix = ".pdf") =>
        LET f == ret.file
            n == Len(f.pages)
            mu_count == Cardinality({i \in 1..n : f.pages[i].mu = "text"})
            py_count == Cardinality({i \in 1..n : f.pages[i].py = "text"})
        IN  /\ (PyMuPDF \in Range(ret.engines) /\ PyMuPDF \in f.opens /\ mu_count > 0) =>
                   /\ ~ret.raised
                   /\ ret.engines = <<PyMuPDF>>
                   /\ ret.metadata.processing_engine = PyMuPDF
                   /\ ret.text = JoinTexts([i \in 1..mu_count |-> PageText], PageSeparator)
            /\ (PyPDF2 \in Range(ret.engines) /\ PyPDF2 \in f.opens /\ py_count > 0) =>
                   /\ ~ret.raised
                   /\ ret.metadata.processing_engine = PyPDF2
                   /\ ret.text = JoinTexts([i \in 1..py_count |-> PageText], PageSeparator)

-----------------------------------------------------------------------------
(* Inserts, deletes, resets and statistics of the vector store: SpecIndex *)

(* The arguments of an insert of 1..MaxArgLen aligned triples; two of the
   triples it draws from carry no filename. *)
IndexAddArgs ==
    LET IndexTriples ==
            {[text |-> <<"a">>, vec |-> Vec(384, -1, 0), meta |-> [filename |-> "a.txt"]],
             [text |-> <<"c">>, vec |-> Vec(384, 0, 2),  meta |-> [filename |-> "c.txt"]],
             [text |-> <<"n">>, vec |-> Vec(384, 1, 0),  meta |-> [source |-> "note"]],
             [text |-> <<"m">>, vec |-> Vec(384, 1, 0),  meta |-> [source |-> "memo"]]}
    IN  {[texts      |-> [i \in 1..k |-> s[i].text],
          embeddings |-> [i \in 1..k |-> s[i].vec],
          metadatas  |-> [i \in 1..k |-> s[i].meta]] :
            s \in [1..MaxArgLen -> IndexTriples], k \in 1..MaxArgLen}

DeleteByMetadata(metadata_filter, store_ok, delete_fails) ==
    LET v == vs_initialize(store_ok) IN
    /\ lastOp' = "delete_by_metadata"
    /\ UNCHANGED calls
    /\ vs_initialized' = v.vs
    /\ UNCHANGED <<is_initialized, is_loaded, model_name, coll_dim, next_id, coll_exists>>
    /\ IF v.raised
       THEN /\ ret' = StoreNotInitialized
            /\ UNCHANGED collection
       ELSE \E r \in {delete_by_metadata(collection, metadata_filter, delete_fails)} :
                /\ ret' = [raised |-> FALSE, value |-> r.value]
                /\ collection' = r.coll

ResetCollection(store_ok, reset_fails) ==
    LET v == vs_initialize(store_ok) IN
    /\ lastOp' = "reset_collection"
    /\ UNCHANGED calls
    /\ vs_initialized' = v.vs
    /\ UNCHANGED <<is_initialized, is_loaded, model_name>>
    /\ IF v.raised
       THEN /\ ret' = StoreNotInitialized
            /\ UNCHANGED <<collection, coll_dim, next_id, coll_exists>>
       ELSE \E r \in {reset_collection(Store, reset_fails)} :
                /\ ret' = [raised |-> FALSE, value |-> r.value]
                /\ SetStore(r.st)

GetCollectionStats(store_ok, stats_fail) ==
    LET v == vs_initialize(store_ok) IN
    /\ lastOp' = "get_collection_stats"
    /\ UNCHANGED calls
    /\ vs_initialized' = v.vs
    /\ UNCHANGED <<is_initialized, is_loaded, model_name, collection, coll_dim, next_id, coll_exists>>
    /\ IF v.raised
       THEN ret' = StoreNotInitialized
       ELSE ret' = [raised |-> FALSE, stats_fail |-> stats_fail,
                    value  |-> get_collection_stats(collection, stats_fail)]

(* VectorStore.delete_documents: collection.delete(ids = document_ids)
   removes the records with these ids and passes over the ids that are not
   stored; it raises on a collection that was deleted, and the method then
   returns False. *)
DeleteDocuments(document_ids, store_ok, delete_fails) ==
    LET v == vs_initialize(store_ok) IN
    /\ lastOp' = "delete_documents"
    /\ UNCHANGED calls
    /\ vs_initialized' = v.vs
    /\ UNCHANGED <<is_initialized, is_loaded, model_name, coll_dim, next_id, coll_exists>>
    /\ IF v.raised
       THEN /\ ret' = StoreNotInitialized
            /\ UNCHANGED collection
       ELSE IF delete_fails \/ ~coll_exists
       THEN /\ ret' = [raised |-> FALSE, value |-> FALSE, document_ids |-> document_ids]
            /\ UNCHANGED collection
       ELSE /\ ret' = [raised |-> FALSE, value |-> TRUE, document_ids |-> document_ids]
            /\ collection' = {r \in collection : r.id \notin Range(document_ids)}

(* VectorStore.get_document: the record with this id as a SearchResult of
   similarity_score 1.0, None when no record has the id or collection.get
   raises, as it does on a collection that was deleted. *)
GetDocument(document_id, store_ok, get_fails) ==
    LET v == vs_initialize(store_ok) IN
    /\ lastOp' = "get_document"
    /\ UNCHANGED calls
    /\ vs_initialized' = v.vs
    /\ UNCHANGED <<is_initialized, is_loaded, model_name, collection, coll_dim, next_id, coll_exists>>
    /\ IF v.raised
       THEN ret' = StoreNotInitialized
       ELSE IF get_fails \/ ~coll_exists \/ document_id \notin IdsOf(collection)
       THEN ret' = [raised |-> FALSE, value |-> None, document_id |-> document_id]
       ELSE \E r \in {x \in collection : x.id = document_id} :
                ret' = [raised |-> FALSE, document_id |-> document_id,
                        value  |-> [content          |-> r.document,
                                    metadata         |-> r.metadata,
                                    similarity_score |-> ScoreDen,
                                    document_id      |-> document_id]]

NextIndex ==
    \/ \E a \in IndexAddArgs, ok \in StoreEnvs, add_fails \in BOOLEAN :
          AddDocuments(a.texts, a.embeddings, a.metadatas,
                       [given |-> FALSE, ids |-> <<>>], ok, add_fails)
    \/ \E f \in {"a.txt", "c.txt"}, ok \in StoreEnvs, delete_fails \in BOOLEAN :
          DeleteByMetadata([filename |-> f], ok, delete_fails)
    \/ \E ids \in {<<1>>, <<2, 3>>}, ok \in StoreEnvs, delete_fails \in BOOLEAN :
          DeleteDocuments(ids, ok, delete_fails)
    \/ \E id \in {1, 2}, ok \in StoreEnvs, get_fails \in BOOLEAN : GetDocument(id, ok, get_fails)
    \/ \E ok \in StoreEnvs, rf \in ResetFaults : ResetCollection(ok, rf)
    \/ \E ok \in StoreEnvs, stats_fail \in BOOLEAN : GetCollectionStats(ok, stats_fail)

SpecIndex == Init /\ [][NextIndex]_vars

(* C21: after any sequence of inserts, deletes and resets, a
   get_collection_stats call whose reads of the collection succeed returns
   total_chunks = the number of records stored now and document_count = the
   number of distinct filename values stored now, all the records without a
   filename counting together as one more document. *)
C21_StatsCountTheCurrentRecords ==
    (lastOp = "get_collection_stats" /\ ~ret.raised /\ ~ret.stats_fail) =>
        LET named   == {r \in collection : "filename" \in DOMAIN r.metadata}
            unnamed == collection \ named
        IN  /\ ret.value.total_chunks = Cardinality(collection)
            /\ ret.value.document_count =
                  Cardinality({r.metadata.filename : r \in named})
                     + (IF unnamed # {} THEN 1 ELSE 0)

(* Statistics taken of a collection that holds a chunk of a named file and
   two different records without a filename: three records, two
   documents. *)
C21_Witness ==
    /\ lastOp = "get_collection_stats"
    /\ ~ret.raised
    /\ ~ret.stats_fail
    /\ \E r1, r2 \in collection :
          /\ "filename" \notin DOMAIN r1.metadata
          /\ "filename" \notin DOMAIN r2.metadata
          /\ r1.metadata # r2.metadata
    /\ \E r \in collection : "filename" \in DOMAIN r.metadata
    /\ ret.value = [document_count |-> 2, total_chunks |-> 3]

-----------------------------------------------------------------------------
(* The text splitter on its own, with small chunk sizes: SpecSplit *)

SplitText(text, chunk_size, chunk_overlap) ==
    /\ lastOp' = "split_text"
    /\ UNCHANGED calls
    /\ ret' = [raised |-> FALSE, text |-> text, chunk_size |-> chunk_size,
               chunk_overlap |-> chunk_overlap,
               chunks |-> RecursiveSplit(text, chunk_size, chunk_overlap),
               value |-> split_text(text, [filename |-> "a.txt", file_extension |-> ".txt"], chunk_size, chunk_overlap)]
    /\ UNCHANGED <<is_initialized, vs_initialized, is_loaded, model_name, collection, coll_dim, next_id, coll_exists>>

(* Texts of letters and blanks, split with chunk_size 4 and chunk_overlap 2
   or with chunk_size 3 and chunk_overlap 1 *)
NextSplit ==
    \E text \in SeqsUpTo({"a", "b", Space}, MaxTextLen), c \in {[chunk_size |-> 4, chunk_overlap |-> 2], [chunk_size |-> 3, chunk_overlap |-> 1]} :
        SplitText(text, c.chunk_size, c.chunk_overlap)

SpecSplit == Init /\ [][NextSplit]_vars

(* C28: for every text and every chunk split_text produces, overlapping
   chunks included, the recorded offsets are positions inside the original
   text, 0 <= start_char <= end_char <= len(text), and the start_char of a
   chunk is never before the end_char of the chunk before it. *)
C28_OffsetsInsideTheText ==
    (lastOp = "split_text" /\ ~ret.raised) =>
        /\ \A i \in 1..Len(ret.value) :
              /\ 0 <= ret.value[i].start_char
              /\ ret.value[i].start_char <= ret.value[i].end_char
              /\ ret.value[i].end_char <= Len(ret.text)
        /\ \A i \in 1..(Len(ret.value) - 1) :
              ret.value[i + 1].start_char >= ret.value[i].end_char

-----------------------------------------------------------------------------
(* Calls of process_document and query_documents that overlap: SpecConc.
   A step is what a call does up to and including its next call on the
   Chroma collection; collection.add and collection.query are one step
   each. *)

(* Variant of InsertCalls that inserts the chunks one add_documents call at
   a time. *)
InsertCallsPerChunk(chunk_texts, embeddings, chunk_metadatas) ==
    [i \in 1..Len(chunk_texts) |-> [texts |-> <<chunk_texts[i]>>, embeddings |-> <<embeddings[i]>>, metadatas |-> <<chunk_metadatas[i]>>]]

(* The add_documents calls process_document issues for the chunks of a
   document: one, with the three lists whole. *)
InsertCalls(chunk_texts, embeddings, chunk_metadatas) ==
    <<[texts |-> chunk_texts, embeddings |-> embeddings, metadatas |-> chunk_metadatas]>>

(* The state the startup handler of api.py leaves when initialize()
   succeeded. *)
InitConc ==
    /\ is_initialized = TRUE
    /\ vs_initialized = TRUE
    /\ is_loaded = TRUE
    /\ model_name = DEFAULT_MODEL
    /\ collection = {}
    /\ coll_dim = 0
    /\ next_id = 0
    /\ coll_exists = TRUE
    /\ lastOp = "none"
    /\ ret = [raised |-> FALSE]
    /\ calls = NoCalls

(* process_document up to its call of add_documents: extraction, split,
   embedding and the metadata of the chunks. *)
IngestBegin(w, file_path, fail_batch) ==
    /\ calls[w].pc = "idle"
    /\ lastOp' = "process_document_begin"
    /\ ret' = [raised |-> FALSE, caller |-> w]
    /\ UNCHANGED <<is_initialized, vs_initialized, model_name, collection, coll_dim, next_id, coll_exists>>
    /\ LET doc_content == DocumentContentOf[file_path]
           chunks      == ChunksOf[file_path]
           chunk_texts == [i \in 1..Len(chunks) |-> chunks[i].content]
           e           == generate_embeddings(is_loaded, chunk_texts, DEFAULT_BATCH_SIZE, TRUE, fail_batch)
       IN  IF doc_content.raised
           THEN /\ calls' = [calls EXCEPT ![w] = [pc |-> "done", file_path |-> file_path, out |-> ExceptOutcome(doc_content.error)]]
                /\ UNCHANGED is_loaded
           ELSE IF NoChunks(chunks)
           THEN /\ calls' = [calls EXCEPT ![w] = [pc |-> "done", file_path |-> file_path, out |-> NoChunksOutcome]]
                /\ UNCHANGED is_loaded
           ELSE /\ calls' = [calls EXCEPT ![w] =
                               [pc         |-> "insert",
                                file_path  |-> file_path,
                                fail_batch |-> fail_batch,
                                pending    |-> InsertCalls(chunk_texts, e.value, [i \in 1..Len(chunks) |-> ChunkMetadata(chunks[i])]),
                                ids        |-> <<>>,
                                inserts    |-> 0]]
                /\ is_loaded' = e.loaded

(* The next add_documents call of the ingestion, and with the last one the
   return of process_document. *)
IngestInsert(w, add_fails) ==
    /\ calls[w].pc = "insert"
    /\ lastOp' = "process_document_insert"
    /\ UNCHANGED <<is_initialized, vs_initialized, is_loaded, model_name>>
    /\ LET c    == calls[w]
           args == Head(c.pending)
           a    == add_documents(Store, args.texts, args.embeddings, args.metadatas, [given |-> FALSE, ids |-> <<>>], add_fails)
           doc_content == DocumentContentOf[c.file_path]
           out  == IF a.raised THEN ExceptOutcome(a.error)
                   ELSE [success             |-> TRUE,
                         document_id         |-> doc_content.metadata.filename,
                         chunks_added        |-> Len(ChunksOf[c.file_path]),
                         total_characters    |-> Len(doc_content.text),
                         file_type           |-> doc_content.file_type,
                         embedding_dimension |-> EMBEDDING_DIMENSION]
           returns == a.raised \/ Tail(c.pending) = <<>>
       IN  /\ SetStore(a.st)
           /\ ret' = [raised |-> FALSE, caller |-> w]
           /\ calls' = [calls EXCEPT ![w] =
                          [pc         |-> IF returns THEN "done" ELSE "insert",
                           file_path  |-> c.file_path,
                           fail_batch |-> c.fail_batch,
                           pending    |-> Tail(c.pending),
                           ids        |-> c.ids \o a.value,
                           inserts    |-> c.inserts + 1,
                           out        |-> IF returns THEN out ELSE NoChunksOutcome]]

(* query_documents up to its call of search_similar: the embedding of the
   query. *)
QueryBegin(query, top_k) ==
    /\ calls[Querier].pc = "idle"
    /\ lastOp' = "query_documents_begin"
    /\ ret' = [raised |-> FALSE, caller |-> Querier]
    /\ UNCHANGED <<is_initialized, vs_initialized, model_name, collection, coll_dim, next_id, coll_exists>>
    /\ LET e == generate_embedding(is_loaded, query, TRUE, 0)
       IN  IF IsBlank(query)
           THEN /\ calls' = [calls EXCEPT ![Querier] = [pc |-> "done", query |-> query, value |-> <<>>]]
                /\ UNCHANGED is_loaded
           ELSE /\ calls' = [calls EXCEPT ![Querier] = [pc |-> "search", query |-> query, top_k |-> top_k, query_embedding |-> e.value]]
                /\ is_loaded' = e.loaded

(* search_similar, its one collection.query, and the return of
   query_documents.  seen keeps the records the collection held during the
   search. *)
QuerySearch(similarity_threshold) ==
    /\ calls[Querier].pc = "search"
    /\ lastOp' = "query_documents_search"
    /\ ret' = [raised |-> FALSE, caller |-> Querier]
    /\ UNCHANGED <<is_initialized, vs_initialized, is_loaded, model_name, collection, coll_dim, next_id, coll_exists>>
    /\ \E s \in search_similar(collection, coll_dim, calls[Querier].query_embedding, calls[Querier].top_k, NoFilter, FALSE) :
          calls' = [calls EXCEPT ![Querier] =
                      [pc      |-> "done",
                       query   |-> calls[Querier].query,
                       results |-> s.value,
                       value   |-> FilterByThreshold(s.value, similarity_threshold),
                       seen    |-> collection]]

NextConc ==
    \/ \E w \in Ingesters, p \in {"a.txt", "c.txt", "blank.txt", "missing.txt"}, fail_batch \in {0, 1} :
          IngestBegin(w, p, fail_batch)
    \/ \E w \in Ingesters, add_fails \in BOOLEAN : IngestInsert(w, add_fails)
    \/ \E query \in {<<"a">>, <<"c">>, <<Space>>}, top_k \in TopKs : QueryBegin(query, top_k)
    \/ QuerySearch(0)

SpecConc == InitConc /\ [][NextConc]_vars

(* The records an ingestion call has stored, among the records coll *)
StoredBy(w, coll) == {r \in coll : "ids" \in DOMAIN calls[w] /\ r.id \in Range(calls[w].ids)}

(* C24: a query that runs while ingestions are under way sees the index
   entirely before or entirely after each insert: of the chunks of any
   ingestion call its search saw none or all, and every record it returns
   is a record the collection held during the search, with its text, its
   vector and its chunk metadata. *)
C24_QuerySeesWholeInserts ==
    (calls[Querier].pc = "done" /\ "seen" \in DOMAIN calls[Querier]) =>
        LET qc == calls[Querier] IN
        /\ \A w \in Ingesters :
              \/ StoredBy(w, qc.seen) = {}
              \/ Cardinality(StoredBy(w, qc.seen)) = Len(ChunksOf[calls[w].file_path])
        /\ \A i \in 1..Len(qc.results) :
              \E r \in qc.seen :
                  /\ r.id = qc.results[i].document_id
                  /\ r.document = qc.results[i].content
                  /\ r.metadata = qc.results[i].metadata
                  /\ r.document # <<>>
                  /\ r.embedding.dim = EMBEDDING_DIMENSION
                  /\ {"filename", "chunk_index", "start_char", "end_char", "embedding_model"} \subseteq DOMAIN r.metadata

(* The search ran between two ingestions: it saw both chunks of the
   two-chunk file one caller had inserted and returned them, while the other
   caller had embedded its chunks and not inserted them yet. *)
C24_Witness ==
    /\ calls[Querier].pc = "done"
    /\ "seen" \in DOMAIN calls[Querier]
    /\ Len(calls[Querier].results) = 2
    /\ \E w1, w2 \in Ingesters :
          /\ w1 # w2
          /\ calls[w1].pc = "done"
          /\ calls[w1].out.success
          /\ Cardinality(StoredBy(w1, calls[Querier].seen)) = 2
          /\ calls[w2].pc = "insert"
          /\ calls[w2].inserts = 0

(* C25: every process_document call issues at most one insert, holding
   all its n chunks; record i of the call carries the text and the vector
   of chunk i and metadata with chunk_index = i (0..n-1 without gaps) and
   the chunk's start_char, end_char and the embedding model.  When calls
   overlap, the collection holds exactly the records of the calls that
   inserted, each with the chunks of its own document. *)
C25_OneInsertOfAlignedChunks ==
    /\ \A w \in Ingesters : "inserts" \in DOMAIN calls[w] =>
          LET c      == calls[w]
              chunks == ChunksOf[c.file_path]
              n      == Len(chunks)
          IN  /\ c.inserts <= 1
              /\ (c.pc = "insert") =>
                    /\ Len(c.pending) = 1
                    /\ Len(c.pending[1].texts) = n
                    /\ Len(c.pending[1].embeddings) = n
                    /\ Len(c.pending[1].metadatas) = n
              /\ c.ids # <<>> =>
                    /\ Len(c.ids) = n
                    /\ \A i \in 1..n : \E r \in collection :
                          /\ r.id = c.ids[i]
                          /\ r.document = chunks[i].content
                          /\ r.embedding = (IF c.fail_batch = 0 THEN Encode(chunks[i].content) ELSE ZeroVector)
                          /\ r.metadata.filename = BaseName(c.file_path)
                          /\ r.metadata.chunk_index = i - 1
                          /\ r.metadata.start_char = chunks[i].start_char
                          /\ r.metadata.end_char = chunks[i].end_char
                          /\ r.metadata.embedding_model = model_name
    /\ collection = UNION {StoredBy(w, collection) : w \in Ingesters}
    /\ Cardinality(collection) = SumSeq([i \in 1..2 |-> Cardinality(StoredBy(IF i = 1 THEN "w1" ELSE "w2", collection))])
    /\ Cardinality(IdsOf(collection)) = Cardinality(collection)

(* Two overlapping ingestions of different documents have both returned
   success: the first caller embedded first and inserted last. *)
C25_Witness ==
    /\ calls["w1"].pc = "done"
    /\ calls["w2"].pc = "done"
    /\ calls["w1"].out.success
    /\ calls["w2"].out.success
    /\ calls["w1"].file_path = "a.txt"
    /\ calls["w2"].file_path = "c.txt"
    /\ calls["w2"].ids = <<1>>
    /\ calls["w1"].ids = <<2, 3>>
    /\ Cardinality(collection) = 3

====
